---- MODULE Spec2Model ----
(***************************************************************************)
(* Model of the cache-locking coordination runtime                         *)
(* (CacheLockingRuntime.getOrSetEffect) running over the in-memory cache   *)
(* and lease adapters (MemoryCache, MemoryLeases).                         *)
(*                                                                         *)
(* Every getOrSet call is a process; one action of the model is one        *)
(* suspension point of the call (one cache, lease, fetcher or hook         *)
(* operation together with the synchronous code that follows it).          *)
(* The fetcher of call c returns the value c, so that the origin of every  *)
(* cached or returned value is visible.                                    *)
(***************************************************************************)
EXTENDS Integers, FiniteSets, Sequences, TLC

\* ---------------------------------------------------------------- bounds
MaxTime == 3
\* The number of operations (cache, lease, fetcher, hook, wait strategy) that
\* fail in one behaviour.
MaxFaults == 1
\* The number of polls of one wait that the model counts: the counters of a
\* wait are exact up to MaxAttempts and stay there for every later poll (a
\* wait with a zero delay can poll any number of times at one clock reading).
MaxAttempts == 3

\* The concurrent getOrSet calls of the model.
Calls == {1, 2}

\* The key every getOrSet call of the model targets, and a second key that
\* only the direct lease-store operations use.
CallKey == "k"
Keys == {"k", "j"}

\* Every adapter has a MemoryCache and a MemoryLeases of its own.  The
\* entries of CallKey in the Maps of the adapters that services.ts resolves
\* are held next to the entries of the instance under study: adapter a's
\* entry is at AdapterStore(a).
AdapterStoreNames == <<"adapter0", "adapter1", "adapter2", "adapter3">>
AdapterStore(a) == AdapterStoreNames[a + 1]
Stores == Keys \cup {AdapterStoreNames[i] : i \in 1 .. Len(AdapterStoreNames)}

\* ownerId: 0 is the instance default (resolveDefaults creates it once per
\* createCacheLocking instance); a call may override it with its own id.
InstanceOwner == 0
OwnerChoices(c) == IF c = 1 THEN {InstanceOwner} ELSE {InstanceOwner, c}

\* The calls that are given an AbortSignal.
WithSignal == {1}
SignalChoices(c) == IF c \in WithSignal THEN {"none", "armed", "aborted"} ELSE {"none"}

\* Option values the instance is configured with (small durations, in ticks).
LeaseTtls == {2}
WaitMaxes == {1}
WaitSteps == {1}
NoTtl == -1
CacheTtls == {NoTtl, 1}

\* ------------------------------------------------------------ MemoryCache
NoEntry == [value |-> 0, expiresAt |-> NoTtl]

\* MemoryCache.get: an absent or expired entry reads as null (value 0); an
\* expired entry is deleted by the read.
CacheGet(entry, t) ==
  IF entry.value = 0 THEN [entry |-> NoEntry, value |-> 0]
  ELSE IF entry.expiresAt # NoTtl /\ entry.expiresAt <= t
       THEN [entry |-> NoEntry, value |-> 0]
       ELSE [entry |-> entry, value |-> entry.value]

\* A variant of the conversion that keeps a negative duration as it is.
toMillisClamped_NoClamp(ttl) == ttl

\* toMillisClamped: negative durations clamp to zero.
toMillisClamped(ttl) == IF ttl < 0 THEN 0 ELSE ttl

\* MemoryCache.set with a ttl: expiresAt = clock.now() + toMillisClamped(ttl).
CacheSetWithTtl(value, ttl, t) ==
  [value |-> value, expiresAt |-> t + toMillisClamped(ttl)]

\* MemoryCache.set: ttl undefined (NoTtl in the options of a call) stores
\* the entry without expiry.
CacheSet(value, ttl, t) ==
  IF ttl = NoTtl THEN [value |-> value, expiresAt |-> NoTtl]
  ELSE CacheSetWithTtl(value, ttl, t)

\* ----------------------------------------------------------- MemoryLeases
NoLease == [holder |-> -1, expiresAt |-> 0, ready |-> FALSE]

\* A variant of acquire that treats a record as live at the instant of its
\* expiry (expiresAt < now in place of expiresAt <= now).
LeaseAcquire_StrictExpiry(entry, owner, ttl, t) ==
  IF entry = NoLease \/ entry.expiresAt < t
  THEN [entry |-> [holder |-> owner, expiresAt |-> t + toMillisClamped(ttl), ready |-> FALSE],
        role |-> "leader", leaseUntil |-> t + toMillisClamped(ttl)]
  ELSE [entry |-> entry, role |-> "follower", leaseUntil |-> entry.expiresAt]

\* A variant of acquire that never looks at the expiry of the record.
LeaseAcquire_IgnoreExpiry(entry, owner, ttl, t) ==
  IF entry = NoLease
  THEN [entry |-> [holder |-> owner, expiresAt |-> t + toMillisClamped(ttl), ready |-> FALSE],
        role |-> "leader", leaseUntil |-> t + toMillisClamped(ttl)]
  ELSE [entry |-> entry, role |-> "follower", leaseUntil |-> entry.expiresAt]

\* MemoryLeases.acquire
LeaseAcquire(entry, owner, ttl, t) ==
  IF entry = NoLease \/ entry.expiresAt <= t
  THEN [entry |-> [holder |-> owner, expiresAt |-> t + toMillisClamped(ttl), ready |-> FALSE],
        role |-> "leader", leaseUntil |-> t + toMillisClamped(ttl)]
  ELSE [entry |-> entry, role |-> "follower", leaseUntil |-> entry.expiresAt]

\* A variant of release that deletes the record whoever holds it.
LeaseRelease_AnyOwner(entry, owner) == NoLease

\* MemoryLeases.release
LeaseRelease(entry, owner) ==
  IF entry # NoLease /\ entry.holder = owner THEN NoLease ELSE entry

\* MemoryLeases.markReady
LeaseMarkReady(entry) ==
  IF entry # NoLease THEN [entry EXCEPT !.ready = TRUE] ELSE entry

\* MemoryLeases.isReady: an expired record is deleted by the read.
LeaseIsReady(entry, t) ==
  IF entry = NoLease THEN [entry |-> NoLease, ready |-> FALSE, expired |-> TRUE]
  ELSE IF entry.expiresAt <= t
       THEN [entry |-> NoLease, ready |-> FALSE, expired |-> TRUE]
       ELSE [entry |-> entry, ready |-> entry.ready, expired |-> FALSE]

\* ------------------------------------------------------------------ state
VARIABLES
  now,      \* the injected clock (CoreClock.now)
  cache,    \* MemoryCache.store, per key
  leases,   \* MemoryLeases.leases, per key
  opts,     \* the resolved instance options
  call,     \* per getOrSet call: position and locals
  faults,   \* the number of operations that have failed so far
  lastOp,   \* the most recent direct lease-store operation and its result
  hookRun,  \* one HookRunner invocation: its hooks, position and trace
  request,  \* the raw arguments of one getOrSet call and what validation made of them
  phaseRun, \* one PhaseRunner invocation: its phase, the action's failure and the mapped error
  registry, \* adapterCache, sharedMemoryAdapter and the stores of the adapters made
  remote    \* a remote lease store (Redis, S3, Postgres) and the calls under way on it

vars == <<now, cache, leases, opts, call, faults, lastOp, hookRun, request, phaseRun, registry, remote>>

NoOp == [op |-> "none", key |-> "k", owner |-> 0, ttl |-> 0, at |-> 0,
         pre |-> [k \in Stores |-> NoLease], role |-> "none", leaseUntil |-> 0,
         ready |-> FALSE, expired |-> FALSE]

\* An optional field of the result's meta that is undefined.
Absent == -1

\* A variant of buildMeta that drops the wait.
buildMeta_NoWaited(outcome, leaseUntil, waited) ==
  [cache |-> outcome, leaseUntil |-> leaseUntil, waited |-> Absent]

\* buildMeta(cache, leaseUntil?, waited?)
buildMeta(outcome, leaseUntil, waited) ==
  [cache |-> outcome, leaseUntil |-> leaseUntil, waited |-> waited]

NoMeta == buildMeta("none", Absent, Absent)

\* The hook events and the number of times each has been fired by a call.
HookEvents == {"onHit", "onLeader", "onFollowerWait", "onFallback"}
NoHooks == [e \in HookEvents |-> 0]

\* HookRunner.onHit / onLeader / onFollowerWait / onFallback is invoked.
Fired(r, event) == [r EXCEPT !.fired[event] = @ + 1]

\* No HookRunner invocation under observation.
NoHookRun ==
  [event |-> "none", hooks |-> [base |-> "absent", override |-> "absent"],
   idx |-> 0, running |-> FALSE, log |-> <<>>, error |-> "none", phase |-> "none"]

\* Per-call options of a getOrSet call that passes none.
NoOptions ==
  [ownerId |-> [given |-> FALSE, text |-> <<>>], waitMax |-> "undefined"]

\* No getOrSet call with raw arguments has been made.
NoRequest ==
  [stage |-> "none", key |-> <<>>, fetcher |-> "function", options |-> NoOptions,
   adapterLeases |-> TRUE, leases |-> FALSE, validateOptions |-> TRUE,
   oneShot |-> FALSE, label |-> "none"]

\* An error context that is not set, and a thrown value that is no
\* cache-locking error: it has no tag of its own.
NoContext == [key |-> "none", phase |-> "none", adapter |-> "none"]
NoFailure == [id |-> "none", tag |-> "none", message |-> "none", context |-> NoContext, cause |-> "none"]
NoError == [tag |-> "none", message |-> "none", context |-> NoContext, cause |-> "none"]

\* No PhaseRunner invocation is under way.
NoPhaseRun ==
  [stage |-> "none", phase |-> "none", key |-> "none", message |-> "none",
   failure |-> NoFailure, error |-> NoError]

\* Adapter descriptors are objects with an identity: 1 and 2 are two objects
\* { type: 'memory' }, 3 is an object { type: 'memory', options: {} }.
MaxAdapters == 2
Descriptors == 1 .. 3
HasOptions(d) == d > 2
SharedMemoryAdapter == 0
NoAdapter == -1
Adapters == 0 .. MaxAdapters
Clients == {1}
AdapterInputs == [kind : {"alias"}, id : {0}] \cup [kind : {"descriptor"}, id : Descriptors]
\* No getOrSet call has been started on a resolved adapter.
NoAdapterCall ==
  [via |-> "none", input |-> [kind |-> "alias", id |-> 0], adapter |-> NoAdapter]

\* The module state of services.ts before any resolution, no client made
\* and no call started.
\* No remote lease store is in use.
NoRemote == [kind |-> "none"]

NoRegistry ==
  [adapterCache |-> [d \in Descriptors |-> NoAdapter],
   created |-> 0,
   clients |-> [n \in Clients |-> NoAdapter],
   lastCreate |-> [n \in Clients |-> "none"],
   seen |-> [i \in AdapterInputs |-> {}],
   calls |-> [c \in Calls |-> NoAdapterCall]]

\* No WaitStrategyContext: the call is not sleeping between two polls.
NoWaitCtx == [attempt |-> 0, remaining |-> 0, delay |-> 0, at |-> 0]

IdleCall ==
  [pc |-> "idle", owner |-> InstanceOwner, signal |-> "none", store |-> CallKey,
   role |-> "none", leaseUntil |-> -1,
   value |-> 0, lastGet |-> 0, shouldCache |-> FALSE, cached |-> FALSE,
   outcome |-> "none", error |-> "none",
   start |-> 0, attempts |-> 0, wakeAt |-> 0, waited |-> -1, waitOutcome |-> "none",
   nAcquire |-> 0, nRelease |-> 0, nSet |-> 0, nMarkReady |-> 0, nFetch |-> 0,
   nGet |-> 0, waitCtx |-> NoWaitCtx,
   releaseFailed |-> FALSE, abortedAsLeader |-> FALSE,
   meta |-> NoMeta, fired |-> NoHooks]

Init ==
  /\ now = 0
  /\ cache = [k \in Stores |-> NoEntry]
  /\ leases = [k \in Stores |-> NoLease]
  /\ opts \in [leaseTtl : LeaseTtls, waitMax : WaitMaxes, waitStep : WaitSteps, cacheTtl : CacheTtls]
  /\ call = [c \in Calls |-> IdleCall]
  /\ faults = 0
  /\ lastOp = NoOp
  /\ hookRun = NoHookRun
  /\ request = NoRequest
  /\ phaseRun = NoPhaseRun
  /\ registry = NoRegistry
  /\ remote = NoRemote

\* An operation of the step fails / no operation of the step fails.
Fault == faults < MaxFaults /\ faults' = faults + 1
NoFault == faults' = faults

\* Update of the locals of call c.
Upd(c, r) == call' = [call EXCEPT ![c] = r]

\* ------------------------------------------------------------------ clock
Tick ==
  /\ now < MaxTime
  /\ now' = now + 1
  /\ UNCHANGED <<cache, leases, opts, call, lastOp, faults, hookRun, request, phaseRun, registry, remote>>

\* ------------------------------------------------------- end of the call
\* withAbortSignal races the flow against abortEffect with Effect.race.
\* Effect.race yields the first side that SUCCEEDS; abortEffect can only
\* fail, so a flow that succeeds wins whether or not the signal has fired,
\* and a flow that fails is joined with abortEffect: the call then ends
\* only once the signal has fired, with the flow's failure first in the
\* cause.  Without a signal the flow's result is the call's result.
\* The meta of the result, as each return site builds it: the hit path
\* passes the outcome only, the leader path adds lease.leaseUntil, the
\* follower path adds lease.leaseUntil and waitResult.waited.
ResultMeta(r, outcome) ==
  CASE outcome = "HIT" -> buildMeta(outcome, Absent, Absent)
    [] outcome \in {"MISS_LEADER", "MISS_LEADER_NOCACHE"} -> buildMeta(outcome, r.leaseUntil, Absent)
    [] OTHER -> buildMeta(outcome, r.leaseUntil, r.waited)

\* nGet counts the cache.get calls of the stage of the flow that is under
\* way: before the acquisition, inside the poll loop, after the loop.  It
\* starts again with each stage and ends with the flow.
FlowSucceeds(r, outcome) ==
  [r EXCEPT !.pc = "done", !.outcome = outcome, !.meta = ResultMeta(r, outcome),
            !.nGet = 0]

FlowFails(r, tag) ==
  [r EXCEPT !.pc = IF r.signal = "armed" THEN "joinAbort" ELSE "done",
            !.error = tag, !.nGet = 0]

\* A variant of withAbortSignal without the check of signal.aborted.
StartsAborted_Never(signal) == FALSE

\* withAbortSignal: if (signal.aborted) return Effect.fail(AbortedError)
StartsAborted(signal) == signal = "aborted"

\* getOrSetEffect up to withAbortSignal: a signal that is already aborted
\* fails the call before the flow starts.
Start(c) ==
  /\ call[c].pc = "idle"
  /\ \A d \in Calls : d < c => call[d].pc # "idle"
  /\ \E o \in OwnerChoices(c), s \in SignalChoices(c) :
       Upd(c, IF StartsAborted(s)
              THEN [call[c] EXCEPT !.owner = o, !.signal = s, !.pc = "done", !.error = "ABORTED"]
              ELSE [call[c] EXCEPT !.owner = o, !.signal = s, !.pc = "probe"])
  /\ UNCHANGED <<now, cache, leases, opts, lastOp, faults, hookRun, request, phaseRun, registry, remote>>

\* The abort event of the call's signal.
AbortFires(c) ==
  /\ call[c].signal = "armed"
  /\ call[c].pc # "done"
  /\ Upd(c, [call[c] EXCEPT
         !.signal = "aborted",
         !.abortedAsLeader = (call[c].role = "leader"),
         !.pc = IF call[c].pc = "joinAbort" THEN "done" ELSE @])
  /\ UNCHANGED <<now, cache, leases, opts, lastOp, faults, hookRun, request, phaseRun, registry, remote>>

\* ------------------------------------------------------------ cache probe
\* A variant of the probe that treats every read as a miss.
AfterProbe_AlwaysMiss(value) == "acquire"

\* Where the flow goes after the initial cache.get.
AfterProbe(value) == IF value # 0 THEN "onHit" ELSE "acquire"

CacheProbe(c) ==
  /\ call[c].pc = "probe"
  /\ \/ LET g == CacheGet(cache[call[c].store], now) IN
          /\ NoFault
          /\ cache' = [cache EXCEPT ![call[c].store] = g.entry]
          /\ Upd(c, [call[c] EXCEPT !.pc = AfterProbe(g.value), !.lastGet = g.value,
                                    !.value = g.value, !.nGet = @ + 1])
     \/ /\ Fault /\ Upd(c, FlowFails([call[c] EXCEPT !.nGet = @ + 1], "CACHE_GET_FAILED"))
        /\ UNCHANGED cache
  /\ UNCHANGED <<now, leases, opts, lastOp, hookRun, request, phaseRun, registry, remote>>

\* A variant of the hit path that runs the leader's release before returning.
AfterOnHit_Release(r) == [r EXCEPT !.pc = "release", !.outcome = "HIT"]

\* The flow's result on the hit path, after the onHit hook.
AfterOnHit(r) == FlowSucceeds(r, "HIT")

HookOnHit(c) ==
  /\ call[c].pc = "onHit"
  /\ \/ NoFault /\ Upd(c, AfterOnHit(Fired(call[c], "onHit")))
     \/ Fault /\ Upd(c, FlowFails(Fired(call[c], "onHit"), "HOOK_FAILED"))
  /\ UNCHANGED <<now, cache, leases, opts, lastOp, hookRun, request, phaseRun, registry, remote>>

\* ---------------------------------------------------------------- acquire
\* Where the flow goes with the role leases.acquire returned; a follower
\* reads the clock for the start of its wait right away.
AfterAcquire(role) == IF role = "leader" THEN "fetch" ELSE "poll"

Acquire(c) ==
  /\ call[c].pc = "acquire"
  /\ \/ LET a == LeaseAcquire(leases[call[c].store], call[c].owner, opts.leaseTtl, now) IN
          /\ NoFault
          /\ leases' = [leases EXCEPT ![call[c].store] = a.entry]
          /\ Upd(c, [call[c] EXCEPT !.pc = AfterAcquire(a.role), !.role = a.role,
                                    !.leaseUntil = a.leaseUntil,
                                    !.nAcquire = @ + 1, !.nGet = 0,
                                    !.start = IF a.role = "leader" THEN 0 ELSE now])
     \/ /\ Fault /\ Upd(c, FlowFails([call[c] EXCEPT !.nAcquire = @ + 1], "LEASE_ACQUIRE_FAILED"))
        /\ UNCHANGED leases
  /\ UNCHANGED <<now, cache, opts, lastOp, hookRun, request, phaseRun, registry, remote>>

\* ----------------------------------------------------------------- leader
\* A variant of the leader path without the finalizer: a failure of runLeader
\* ends the flow at once.
LeaderFails_NoRelease(r, tag) == FlowFails(r, tag)

\* runLeaderWithRelease: the scope's finalizer runs leases.release on every
\* exit of runLeader; a failure of runLeader is kept and surfaces after the
\* release.
LeaderFails(r, tag) == [r EXCEPT !.pc = "release", !.error = tag]

\* A variant of runLeader that skips cache.set whatever shouldCache says.
AfterLeaderFetch_SkipSet(shouldCache) == "markReady"

\* runLeader after the fetch: shouldCache decides between cache.set and
\* MISS_LEADER_NOCACHE.
AfterLeaderFetch(shouldCache) == IF shouldCache THEN "set" ELSE "markReady"

LeaderOutcome(shouldCache) == IF shouldCache THEN "MISS_LEADER" ELSE "MISS_LEADER_NOCACHE"

LeaderFetch(c) ==
  /\ call[c].pc = "fetch"
  /\ \/ \E sc \in BOOLEAN :
          NoFault /\
          Upd(c, [call[c] EXCEPT !.pc = AfterLeaderFetch(sc), !.value = c,
                                 !.nFetch = @ + 1, !.shouldCache = sc,
                                 !.outcome = LeaderOutcome(sc)])
     \/ Fault /\ Upd(c, LeaderFails([call[c] EXCEPT !.nFetch = @ + 1], "FETCHER_FAILED"))
  /\ UNCHANGED <<now, cache, leases, opts, lastOp, hookRun, request, phaseRun, registry, remote>>

LeaderSet(c) ==
  /\ call[c].pc = "set"
  /\ \/ /\ NoFault
        /\ cache' = [cache EXCEPT ![call[c].store] = CacheSet(call[c].value, opts.cacheTtl, now)]
        /\ Upd(c, [call[c] EXCEPT !.pc = "markReady", !.cached = TRUE, !.nSet = @ + 1])
     \/ /\ Fault /\ Upd(c, LeaderFails([call[c] EXCEPT !.nSet = @ + 1], "CACHE_SET_FAILED"))
        /\ UNCHANGED cache
  /\ UNCHANGED <<now, leases, opts, lastOp, hookRun, request, phaseRun, registry, remote>>

LeaderMarkReady(c) ==
  /\ call[c].pc = "markReady"
  /\ \/ /\ NoFault
        /\ leases' = [leases EXCEPT ![call[c].store] = LeaseMarkReady(leases[call[c].store])]
        /\ Upd(c, [call[c] EXCEPT !.pc = "onLeader", !.nMarkReady = @ + 1])
     \/ /\ Fault /\ Upd(c, LeaderFails([call[c] EXCEPT !.nMarkReady = @ + 1], "LEASE_READY_FAILED"))
        /\ UNCHANGED leases
  /\ UNCHANGED <<now, cache, opts, lastOp, hookRun, request, phaseRun, registry, remote>>

HookOnLeader(c) ==
  /\ call[c].pc = "onLeader"
  /\ \/ NoFault /\ Upd(c, [Fired(call[c], "onLeader") EXCEPT !.pc = "release"])
     \/ Fault /\ Upd(c, LeaderFails(Fired(call[c], "onLeader"), "HOOK_FAILED"))
  /\ UNCHANGED <<now, cache, leases, opts, lastOp, hookRun, request, phaseRun, registry, remote>>

\* The result of the flow once the scope is closed.
AfterRelease(r) ==
  IF r.error = "none" THEN FlowSucceeds(r, r.outcome)
  ELSE FlowFails([r EXCEPT !.outcome = "none"], r.error)

\* A variant of the finalizer that lets the failure of leases.release
\* replace the result of runLeader.
ReleaseFailed_Surfaces(r) ==
  [r EXCEPT !.releaseFailed = TRUE, !.error = "LEASE_RELEASE_FAILED"]

\* leaseRelease(...).pipe(Effect.ignore): the failure of leases.release is
\* dropped; the result of runLeader stands.
ReleaseFailed(r) == [r EXCEPT !.releaseFailed = TRUE]

\* The finalizer: leases.release(key, ownerId), its failure ignored.
LeaderRelease(c) ==
  /\ call[c].pc = "release"
  /\ \/ /\ NoFault
        /\ leases' = [leases EXCEPT ![call[c].store] = LeaseRelease(leases[call[c].store], call[c].owner)]
        /\ Upd(c, AfterRelease([call[c] EXCEPT !.nRelease = @ + 1]))
     \/ /\ UNCHANGED leases
        /\ Fault /\ Upd(c, AfterRelease(ReleaseFailed([call[c] EXCEPT !.nRelease = @ + 1])))
  /\ UNCHANGED <<now, cache, opts, lastOp, hookRun, request, phaseRun, registry, remote>>

\* The finalizer with a leases.release that fails whatever failed before it:
\* this failure is not drawn from the budget of MaxFaults, so it also
\* follows a failed fetch, cache.set, markReady or onLeader.
LeaderReleaseFails(c) ==
  /\ call[c].pc = "release"
  /\ NoFault
  /\ UNCHANGED leases
  /\ Upd(c, AfterRelease(ReleaseFailed([call[c] EXCEPT !.nRelease = @ + 1])))
  /\ UNCHANGED <<now, cache, opts, lastOp, hookRun, request, phaseRun, registry, remote>>

\* --------------------------------------------------------------- follower
\* waitForCache: the wait ends with the clock read `end`; the locals of the
\* loop are dead from then on and are reset.
WaitEnds(r, t) ==
  [r EXCEPT !.waited = IF t - r.start < 0 THEN 0 ELSE t - r.start,
            !.start = 0, !.attempts = 0, !.wakeAt = 0, !.waitCtx = NoWaitCtx,
            !.nGet = 0]

\* A variant of the wait that reads the cache once more after a poll that
\* found a value.
WaitHit_FinalGet(r, value, t) == [WaitEnds(r, t) EXCEPT !.pc = "final"]

\* waitForCache, lines 473-486: a poll that found a value ends the wait
\* with HIT; otherwise one more cache.get decides between HIT and FALLBACK.
WaitHit(r, value, t) ==
  [WaitEnds(r, t) EXCEPT !.pc = "onFollowerWait", !.value = value, !.waitOutcome = "HIT"]

WaitNone(r, t) == [WaitEnds(r, t) EXCEPT !.pc = "final"]

\* A variant of the final read that reports FALLBACK whatever it found.
ClassifyFinal_AlwaysFallback(value) == "FALLBACK"

\* waitForCache, line 485: the outcome of the final cache.get.
ClassifyFinal(value) == IF value # 0 THEN "HIT" ELSE "FALLBACK"

\* A counter that is exact up to cap and stays at cap from there on.
UpTo(n, cap) == IF n < cap THEN n + 1 ELSE cap

\* poll, first half: cache.get.
Poll(c) ==
  /\ call[c].pc = "poll"
  /\ \/ LET g == CacheGet(cache[call[c].store], now) IN
          /\ NoFault
          /\ cache' = [cache EXCEPT ![call[c].store] = g.entry]
          /\ Upd(c, IF g.value # 0
                    THEN WaitHit([call[c] EXCEPT !.lastGet = g.value,
                                                 !.nGet = UpTo(@, MaxAttempts + 1)], g.value, now)
                    ELSE [call[c] EXCEPT !.pc = "isReady", !.lastGet = 0,
                                         !.nGet = UpTo(@, MaxAttempts + 1)])
     \/ /\ Fault /\ Upd(c, FlowFails([call[c] EXCEPT !.nGet = UpTo(@, MaxAttempts + 1)], "CACHE_GET_FAILED"))
        /\ UNCHANGED cache
  /\ UNCHANGED <<now, leases, opts, lastOp, hookRun, request, phaseRun, registry, remote>>

\* A variant of the remaining time that is one tick too long.
Remaining_OffByOne(waitMax, start, t) ==
  LET elapsed == IF t - start < 0 THEN 0 ELSE t - start
  IN IF waitMax - elapsed + 1 < 0 THEN 0 ELSE waitMax - elapsed + 1

\* remaining = max(0, waitMax - max(0, now - start))
Remaining(waitMax, start, t) ==
  LET elapsed == IF t - start < 0 THEN 0 ELSE t - start
  IN IF waitMax - elapsed < 0 THEN 0 ELSE waitMax - elapsed

\* A variant of the poll that sleeps the delay of the strategy as it is.
BoundedDelay_Unbounded(delay, remaining) == delay

\* boundedDelay = min(delay, remaining)
BoundedDelay(delay, remaining) == IF delay < remaining THEN delay ELSE remaining

\* fixedWaitStrategy
fixedWaitStrategy(waitStep) == waitStep

\* Ref.getAndUpdate(attempts, (value) => value + 1): the attempt handed to
\* the strategy is the count before the update.
AttemptPassed(attempts) == attempts

\* poll, lines 438-447: the context the strategy is called with, the delay
\* it returned and the clock reading of the poll.
WaitContext(attempts, remaining, delay, t) ==
  [attempt |-> AttemptPassed(attempts), remaining |-> remaining, delay |-> delay, at |-> t]

\* resolveWaitDelay: a strategy that throws fails the runSync of the
\* waitStrategy phase; a strategy that returns something that is no finite
\* duration fails decodeWith(waitDelaySchema, ...), a ValidationError.
StrategyFailures == {"throws", "invalidDelay"}
resolveWaitDelayError(kind) ==
  IF kind = "throws" THEN "WAIT_STRATEGY_FAILED" ELSE "VALIDATION_ERROR"

\* A variant of the poll that leaves the loop on a ready lease only.
PollExits_ReadyOnly(state) == state.ready

\* poll: readyState.value.ready || readyState.value.expired ends the loop.
PollExits(state) == state.ready \/ state.expired

\* poll, second half: leases.isReady, then the delay of the next retry.
PollReady(c) ==
  /\ call[c].pc = "isReady"
  /\ \/ LET s == LeaseIsReady(leases[call[c].store], now)
            remaining == Remaining(opts.waitMax, call[c].start, now) IN
          /\ leases' = [leases EXCEPT ![call[c].store] = s.entry]
          /\ \/ /\ PollExits(s)
                /\ NoFault
                /\ Upd(c, WaitNone(call[c], now))
             \/ /\ ~PollExits(s)
                /\ remaining <= 0
                /\ NoFault
                /\ Upd(c, WaitNone(call[c], now))
             \/ /\ ~PollExits(s)
                /\ remaining > 0
                /\ \/ NoFault /\ Upd(c, [call[c] EXCEPT
                          !.pc = "sleep", !.attempts = UpTo(@, MaxAttempts),
                          !.waitCtx = WaitContext(call[c].attempts, remaining,
                                                  fixedWaitStrategy(opts.waitStep), now),
                          !.wakeAt = now + BoundedDelay(fixedWaitStrategy(opts.waitStep), remaining)])
                   \/ \E kind \in StrategyFailures :
                        Fault /\ Upd(c, FlowFails([call[c] EXCEPT !.attempts = UpTo(@, MaxAttempts)],
                                                  resolveWaitDelayError(kind)))
     \/ /\ Fault /\ Upd(c, FlowFails(call[c], "LEASE_READY_FAILED"))
        /\ UNCHANGED leases
  /\ UNCHANGED <<now, cache, opts, lastOp, hookRun, request, phaseRun, registry, remote>>

\* The retry schedule's delay has passed.
Wake(c) ==
  /\ call[c].pc = "sleep"
  /\ now >= call[c].wakeAt
  /\ Upd(c, [call[c] EXCEPT !.pc = "poll", !.waitCtx = NoWaitCtx])
  /\ UNCHANGED <<now, cache, leases, opts, lastOp, faults, hookRun, request, phaseRun, registry, remote>>

\* Effect.timeoutFail({ duration: waitMax }): the timer is due.
TimeoutDue(start, waitMax, t) == t >= start + waitMax

\* The call is inside the poll loop of waitForCache.
InWait(c) == call[c].pc \in {"poll", "isReady", "sleep"}

\* Effect.timeoutFail(waitMax): the timer interrupts the poll loop.
WaitTimeout(c) ==
  /\ InWait(c)
  /\ TimeoutDue(call[c].start, opts.waitMax, now)
  /\ Upd(c, WaitNone(call[c], now))
  /\ UNCHANGED <<now, cache, leases, opts, lastOp, faults, hookRun, request, phaseRun, registry, remote>>

\* The cache.get after a wait that ended without a value.
FinalGet(c) ==
  /\ call[c].pc = "final"
  /\ \/ LET g == CacheGet(cache[call[c].store], now) IN
          /\ NoFault
          /\ cache' = [cache EXCEPT ![call[c].store] = g.entry]
          /\ Upd(c, [call[c] EXCEPT !.pc = "onFollowerWait", !.lastGet = g.value,
                                    !.value = g.value, !.nGet = @ + 1,
                                    !.waitOutcome = ClassifyFinal(g.value)])
     \/ /\ Fault /\ Upd(c, FlowFails([call[c] EXCEPT !.nGet = @ + 1], "CACHE_GET_FAILED"))
        /\ UNCHANGED cache
  /\ UNCHANGED <<now, leases, opts, lastOp, hookRun, request, phaseRun, registry, remote>>

\* A variant of runFollower that runs the fetcher whatever the wait found.
AfterFollowerWait_AlwaysFetch(r) == [r EXCEPT !.pc = "fallbackFetch"]

\* A variant of runFollower that reports MISS_FOLLOWER_HIT whatever the wait
\* found.
AfterFollowerWait_AlwaysHit(r) == FlowSucceeds(r, "MISS_FOLLOWER_HIT")

\* A variant of runFollower that fires onHit for a value found by the wait.
AfterFollowerWait_FiresOnHit(r) ==
  IF r.value # 0 THEN [r EXCEPT !.pc = "onHit"]
  ELSE [r EXCEPT !.pc = "fallbackFetch"]

\* A variant of runFollower that contends for the lease again when the wait
\* found no value.
AfterFollowerWait_Reacquire(r) ==
  IF r.value # 0 THEN FlowSucceeds(r, "MISS_FOLLOWER_HIT")
  ELSE [r EXCEPT !.pc = "acquire"]

\* runFollower after onFollowerWait: a value ends the call, none falls back
\* to the call's own fetcher.
AfterFollowerWait(r) ==
  IF r.value # 0 THEN FlowSucceeds(r, "MISS_FOLLOWER_HIT")
  ELSE [r EXCEPT !.pc = "fallbackFetch"]

HookOnFollowerWait(c) ==
  /\ call[c].pc = "onFollowerWait"
  /\ \/ NoFault /\ Upd(c, AfterFollowerWait(Fired([call[c] EXCEPT !.nGet = 0], "onFollowerWait")))
     \/ Fault /\ Upd(c, FlowFails(Fired(call[c], "onFollowerWait"), "HOOK_FAILED"))
  /\ UNCHANGED <<now, cache, leases, opts, lastOp, hookRun, request, phaseRun, registry, remote>>

\* A variant of runFollower that stores what the fallback fetched.
AfterFallbackFetch_Store == "set"

\* runFollower after the fallback fetch.
AfterFallbackFetch == "onFallback"

FallbackFetch(c) ==
  /\ call[c].pc = "fallbackFetch"
  /\ \/ NoFault /\ Upd(c, [call[c] EXCEPT !.pc = AfterFallbackFetch, !.value = c, !.nFetch = @ + 1])
     \/ Fault /\ Upd(c, FlowFails([call[c] EXCEPT !.nFetch = @ + 1], "FETCHER_FAILED"))
  /\ UNCHANGED <<now, cache, leases, opts, lastOp, hookRun, request, phaseRun, registry, remote>>

HookOnFallback(c) ==
  /\ call[c].pc = "onFallback"
  /\ \/ NoFault /\ Upd(c, FlowSucceeds(Fired(call[c], "onFallback"), "MISS_FOLLOWER_FALLBACK"))
     \/ Fault /\ Upd(c, FlowFails(Fired(call[c], "onFallback"), "HOOK_FAILED"))
  /\ UNCHANGED <<now, cache, leases, opts, lastOp, hookRun, request, phaseRun, registry, remote>>

\* ---------------------------------------------------------- specification
Next ==
  \/ Tick
  \/ \E c \in Calls : Start(c)
  \/ \E c \in Calls : AbortFires(c)
  \/ \E c \in Calls : CacheProbe(c)
  \/ \E c \in Calls : HookOnHit(c)
  \/ \E c \in Calls : Acquire(c)
  \/ \E c \in Calls : LeaderFetch(c)
  \/ \E c \in Calls : LeaderSet(c)
  \/ \E c \in Calls : LeaderMarkReady(c)
  \/ \E c \in Calls : HookOnLeader(c)
  \/ \E c \in Calls : LeaderRelease(c)
  \/ \E c \in Calls : Poll(c)
  \/ \E c \in Calls : PollReady(c)
  \/ \E c \in Calls : Wake(c)
  \/ \E c \in Calls : WaitTimeout(c)
  \/ \E c \in Calls : FinalGet(c)
  \/ \E c \in Calls : HookOnFollowerWait(c)
  \/ \E c \in Calls : FallbackFetch(c)
  \/ \E c \in Calls : HookOnFallback(c)

Spec == Init /\ [][Next]_vars

\* ------------------------------------------------------ failing release
\* The runs of Spec together with those in which the release of a leader
\* fails after an earlier step of the same or of another call has failed.
NextRelease ==
  \/ Next
  \/ \E c \in Calls : LeaderReleaseFails(c)

ReleaseSpec == Init /\ [][NextRelease]_vars

\* ------------------------------------------------------------- progress
\* The behaviours in which every operation that is under way completes and
\* the clock advances: the clock also runs past MaxTime while a call waits
\* for a timer, and waitStep may be zero.  Nothing obliges the caller to
\* abort its signal, and nothing obliges a call to be made.
WaitStepsLive == {0, 1}

InitLive ==
  /\ now = 0
  /\ cache = [k \in Stores |-> NoEntry]
  /\ leases = [k \in Stores |-> NoLease]
  /\ opts \in [leaseTtl : LeaseTtls, waitMax : WaitMaxes, waitStep : WaitStepsLive, cacheTtl : {NoTtl}]
  /\ call = [c \in Calls |-> IdleCall]
  /\ faults = 0
  /\ lastOp = NoOp
  /\ hookRun = NoHookRun
  /\ request = NoRequest
  /\ phaseRun = NoPhaseRun
  /\ registry = NoRegistry
  /\ remote = NoRemote

\* The clock while a call waits for a timer that is not yet due.
LiveTick ==
  /\ now >= MaxTime
  /\ \E c \in Calls : InWait(c) /\ ~TimeoutDue(call[c].start, opts.waitMax, now)
  /\ now' = now + 1
  /\ UNCHANGED <<cache, leases, opts, call, lastOp, faults, hookRun, request, phaseRun, registry, remote>>

\* The steps of call c that the call itself, its adapters, fetcher, hooks
\* and timers take.
CallStep(c) ==
  \/ CacheProbe(c)
  \/ HookOnHit(c)
  \/ Acquire(c)
  \/ LeaderFetch(c)
  \/ LeaderSet(c)
  \/ LeaderMarkReady(c)
  \/ HookOnLeader(c)
  \/ LeaderRelease(c)
  \/ Poll(c)
  \/ PollReady(c)
  \/ Wake(c)
  \/ WaitTimeout(c)
  \/ FinalGet(c)
  \/ HookOnFollowerWait(c)
  \/ FallbackFetch(c)
  \/ HookOnFallback(c)

NextLive ==
  \/ Tick
  \/ LiveTick
  \/ \E c \in Calls : Start(c)
  \/ \E c \in Calls : AbortFires(c)
  \/ \E c \in Calls : CallStep(c)

LiveSpec ==
  /\ InitLive
  /\ [][NextLive]_vars
  /\ WF_vars(Tick \/ LiveTick)
  /\ \A c \in Calls : WF_vars(CallStep(c))

\* ------------------------------------------------ three calls, no failure
\* Three concurrent getOrSet calls of one instance (no signal, the instance's
\* ownerId), in runs where no operation fails.
Calls3 == {1, 2, 3}

Init3 ==
  /\ now = 0
  /\ cache = [k \in Stores |-> NoEntry]
  /\ leases = [k \in Stores |-> NoLease]
  /\ opts \in [leaseTtl : LeaseTtls, waitMax : WaitMaxes, waitStep : WaitSteps, cacheTtl : CacheTtls]
  /\ call = [c \in Calls3 |-> IdleCall]
  /\ faults = MaxFaults
  /\ lastOp = NoOp
  /\ hookRun = NoHookRun
  /\ request = NoRequest
  /\ phaseRun = NoPhaseRun
  /\ registry = NoRegistry
  /\ remote = NoRemote

Next3 ==
  \/ Tick
  \/ \E c \in Calls3 : Start(c) /\ call'[c].signal = "none" /\ call'[c].owner = InstanceOwner
  \/ \E c \in Calls3 : CacheProbe(c)
  \/ \E c \in Calls3 : HookOnHit(c)
  \/ \E c \in Calls3 : Acquire(c)
  \/ \E c \in Calls3 : LeaderFetch(c)
  \/ \E c \in Calls3 : LeaderSet(c)
  \/ \E c \in Calls3 : LeaderMarkReady(c)
  \/ \E c \in Calls3 : HookOnLeader(c)
  \/ \E c \in Calls3 : LeaderRelease(c)
  \/ \E c \in Calls3 : Poll(c)
  \/ \E c \in Calls3 : PollReady(c)
  \/ \E c \in Calls3 : Wake(c)
  \/ \E c \in Calls3 : WaitTimeout(c)
  \/ \E c \in Calls3 : FinalGet(c)
  \/ \E c \in Calls3 : HookOnFollowerWait(c)
  \/ \E c \in Calls3 : FallbackFetch(c)
  \/ \E c \in Calls3 : HookOnFallback(c)

Spec3 == Init3 /\ [][Next3]_vars

\* ---------------------------------------------- the hook runner on its own
\* One invocation of HookRunner.onHit / onLeader / onFollowerWait /
\* onFallback with every combination of an instance (base) hook and a
\* per-call (override) hook.  A hook is absent, returns an Effect that
\* succeeds ("ok"), fails with an untagged failure ("fails") or fails with an
\* error that is already a tagged cache-locking error ("failsTagged"),
\* throws, or returns no Effect.
HookKinds == {"absent", "ok", "fails", "failsTagged", "throws", "notEffect"}

\* The tagged cache-locking error a "failsTagged" hook fails with.
TaggedFailure == [error |-> "ABORTED", phase |-> "abort"]

\* A variant of runHooks that runs the per-call hook first.
HookOrder_OverrideFirst == <<"override", "base">>

\* runHooks: runHook(baseHook), then runHook(overrideHook).
HookOrder == <<"base", "override">>

\* Phase.HooksOnHit ... Phase.HooksOnFallback
HookPhase(event) ==
  CASE event = "onHit" -> "hooks.onHit"
    [] event = "onLeader" -> "hooks.onLeader"
    [] event = "onFollowerWait" -> "hooks.onFollowerWait"
    [] event = "onFallback" -> "hooks.onFallback"

InitHook ==
  /\ now = 0
  /\ cache = [k \in Stores |-> NoEntry]
  /\ leases = [k \in Stores |-> NoLease]
  /\ opts \in [leaseTtl : LeaseTtls, waitMax : WaitMaxes, waitStep : WaitSteps, cacheTtl : {NoTtl}]
  /\ call = [c \in Calls |-> IdleCall]
  /\ faults = 0
  /\ lastOp = NoOp
  /\ \E e \in HookEvents, b \in HookKinds, o \in HookKinds :
       hookRun = [NoHookRun EXCEPT !.event = e, !.hooks = [base |-> b, override |-> o], !.idx = 1]
  /\ request = NoRequest
  /\ phaseRun = NoPhaseRun
  /\ registry = NoRegistry
  /\ remote = NoRemote

\* runHook fails: HookFailed with the phase of the event.
HookFails(h) ==
  [h EXCEPT !.idx = Len(HookOrder) + 1, !.running = FALSE,
            !.error = "HOOK_FAILED", !.phase = HookPhase(h.event)]

\* The phase runner re-raises an error that is already a tagged
\* cache-locking error unchanged: same tag, same phase.
HookRethrows(h, tagged) ==
  [h EXCEPT !.idx = Len(HookOrder) + 1, !.running = FALSE,
            !.error = tagged.error, !.phase = tagged.phase]

\* runHook, synchronous part: no hook succeeds at once; hook() that throws
\* or returns something that is no Effect fails; otherwise the returned
\* Effect starts.
HookCall ==
  /\ hookRun.idx \in 1..Len(HookOrder)
  /\ ~hookRun.running
  /\ LET which == HookOrder[hookRun.idx]
         kind == hookRun.hooks[which]
     IN hookRun' =
          CASE kind = "absent" -> [hookRun EXCEPT !.idx = @ + 1]
            [] kind \in {"throws", "notEffect"} ->
                 HookFails([hookRun EXCEPT !.log = Append(@, <<which, "called">>)])
            [] OTHER -> [hookRun EXCEPT !.running = TRUE,
                                        !.log = Append(@, <<which, "called">>)]
  /\ UNCHANGED <<now, cache, leases, opts, call, faults, lastOp, request, phaseRun, registry, remote>>

\* PhaseRunner.runEffect(phase, context, message, effect) on a failing
\* Effect: a failure that is a cache-locking error already is raised again
\* as it is, any other failure is wrapped with the tag of the phase.
runEffect(h, kind) ==
  IF kind = "failsTagged" THEN HookRethrows(h, TaggedFailure) ELSE HookFails(h)

\* runHook, the Effect the hook returned completes; its failure goes through
\* PhaseRunner.runEffect.
HookCompletes ==
  /\ hookRun.idx \in 1..Len(HookOrder)
  /\ hookRun.running
  /\ LET which == HookOrder[hookRun.idx]
         kind == hookRun.hooks[which]
     IN hookRun' =
          CASE kind = "ok" ->
                 [hookRun EXCEPT !.idx = @ + 1, !.running = FALSE,
                                 !.log = Append(@, <<which, "completed">>)]
            [] OTHER -> runEffect([hookRun EXCEPT !.log = Append(@, <<which, "failed">>)], kind)
  /\ UNCHANGED <<now, cache, leases, opts, call, faults, lastOp, request, phaseRun, registry, remote>>

NextHook ==
  \/ HookCall
  \/ HookCompletes

HookSpec == InitHook /\ [][NextHook]_vars

\* ------------------------------------------------------- waitMax = 0
\* The instance may be configured with waitMax = 0.
WaitMaxesZero == {0, 1}

InitZeroWait ==
  /\ now = 0
  /\ cache = [k \in Stores |-> NoEntry]
  /\ leases = [k \in Stores |-> NoLease]
  /\ opts \in [leaseTtl : LeaseTtls, waitMax : WaitMaxesZero, waitStep : WaitSteps, cacheTtl : {NoTtl}]
  /\ call = [c \in Calls |-> IdleCall]
  /\ faults = 0
  /\ lastOp = NoOp
  /\ hookRun = NoHookRun
  /\ request = NoRequest
  /\ phaseRun = NoPhaseRun
  /\ registry = NoRegistry
  /\ remote = NoRemote

ZeroWaitSpec == InitZeroWait /\ [][Next]_vars

\* ------------------------------------------------- the delays of the wait
\* The instance may be configured with a waitStep below, at or above what
\* remains of a longer waitMax, under a lease that outlasts the wait.
WaitMaxesLong == {3}
WaitStepsAny == {0, 1, 2, 4}
LeaseTtlsLong == {4}

InitStrategy ==
  /\ now = 0
  /\ cache = [k \in Stores |-> NoEntry]
  /\ leases = [k \in Stores |-> NoLease]
  /\ opts \in [leaseTtl : LeaseTtlsLong, waitMax : WaitMaxesLong, waitStep : WaitStepsAny, cacheTtl : {NoTtl}]
  /\ call = [c \in Calls |-> IdleCall]
  /\ faults = 0
  /\ lastOp = NoOp
  /\ hookRun = NoHookRun
  /\ request = NoRequest
  /\ phaseRun = NoPhaseRun
  /\ registry = NoRegistry
  /\ remote = NoRemote

StrategySpec == InitStrategy /\ [][Next]_vars

\* ------------------------------------------------- validation of a call
\* A getOrSet call with raw arguments: the key is a string (a sequence of
\* characters, blank or not), the fetcher is a function or something else,
\* a duration is a finite number or Infinity, the adapter brings leases or
\* not, and leases may be passed explicitly.  Of the per-call options the
\* ownerId (a string) and waitMax (a duration) are passed.
Blank == " "
KeyInputs == {<<>>, <<" ", " ">>, <<"a">>, <<" ", "a", " ">>}
OwnerIdInputs ==
  {[given |-> FALSE, text |-> <<>>]} \cup
  {[given |-> TRUE, text |-> t] : t \in {<<>>, <<" ">>, <<"o">>}}
FunctionInputs == {"function", "notFunction"}
DurationInputs == {"undefined", "finite", "infinite"}
OptionInputs == [ownerId : OwnerIdInputs, waitMax : DurationInputs]

\* String.prototype.trim
RECURSIVE trimStart(_)
trimStart(text) ==
  IF text # <<>> /\ Head(text) = Blank THEN trimStart(Tail(text)) ELSE text

RECURSIVE trimEnd(_)
trimEnd(text) ==
  IF text # <<>> /\ text[Len(text)] = Blank
  THEN trimEnd(SubSeq(text, 1, Len(text) - 1))
  ELSE text

trim(text) == trimEnd(trimStart(text))

\* A variant of the string check that does not trim.
nonEmptyStringSchema_NoTrim(text) == Len(text) > 0

\* nonEmptyStringSchema: value.trim().length > 0
nonEmptyStringSchema(text) == Len(trim(text)) > 0

\* functionSchema: typeof value === 'function'
functionSchema(value) == value = "function"

\* durationSchema: the decoded duration is finite
durationSchema(value) == value # "infinite"

keySchema(key) == nonEmptyStringSchema(key)
ownerIdSchema(ownerId) == nonEmptyStringSchema(ownerId)
fetcherSchema(fetcher) == functionSchema(fetcher)

\* callOptionsSchema: every field is optional and checked when present.
callOptionsSchema(o) ==
  /\ o.ownerId.given => ownerIdSchema(o.ownerId.text)
  /\ o.waitMax # "undefined" => durationSchema(o.waitMax)

\* resolveLeases: options.leases, else adapter.leases, else ValidationError.
resolveLeases(optionsLeases, adapterLeases) == optionsLeases \/ adapterLeases

\* validateGetOrSetArgsEffect: the label of the argument that fails, key
\* before fetcher; nothing is checked when validation is turned off.
validateGetOrSetArgs(key, fetcher, validateOptions) ==
  IF ~validateOptions THEN "ok"
  ELSE IF ~keySchema(key) THEN "key"
  ELSE IF ~fetcherSchema(fetcher) THEN "fetcher"
  ELSE "ok"

\* parseCallOptionsEffect
parseCallOptions(options, validateOptions) ==
  IF ~validateOptions THEN "ok"
  ELSE IF ~callOptionsSchema(options) THEN "getOrSet options"
  ELSE "ok"

\* baseOptionsSchema: every field but the adapter is optional and checked
\* when present.  The requests here pass an adapter object, which decodes;
\* adapterSchema is applied where the adapter input varies.
baseOptionsSchema(o) ==
  /\ o.ownerId.given => ownerIdSchema(o.ownerId.text)
  /\ o.waitMax # "undefined" => durationSchema(o.waitMax)

\* validateBaseOptions, skipped when options.validateOptions === false
validateBaseOptions(options, validateOptions) ==
  IF ~validateOptions THEN "ok"
  ELSE IF ~baseOptionsSchema(options) THEN "cache-locking options"
  ELSE "ok"

\* normalizeCacheLockingOptions: the options first, then the adapter's leases.
normalizeCacheLockingOptions(options, optionsLeases, adapterLeases, validateOptions) ==
  LET base == validateBaseOptions(options, validateOptions)
  IN IF base # "ok" THEN base
     ELSE IF ~resolveLeases(optionsLeases, adapterLeases) THEN "leases"
     ELSE "ok"

\* What is checked between the call and the flow, in the order of the code;
\* the result is the label of the first failure.  The one-shot getOrSet
\* takes its options as the instance's: they are normalized (options, then
\* leases) before getOrSetEffect checks the key and the fetcher, and there
\* are no per-call options.  A client has resolved its leases when it was
\* made; its getOrSet checks the key, the fetcher and the per-call options.
Validate(req) ==
  IF req.oneShot
  THEN LET norm == normalizeCacheLockingOptions(req.options, req.leases, req.adapterLeases,
                                                req.validateOptions)
       IN IF norm # "ok" THEN norm
          ELSE validateGetOrSetArgs(req.key, req.fetcher, req.validateOptions)
  ELSE IF ~resolveLeases(req.leases, req.adapterLeases) THEN "leases"
  ELSE LET args == validateGetOrSetArgs(req.key, req.fetcher, req.validateOptions)
       IN IF args # "ok" THEN args
          ELSE parseCallOptions(req.options, req.validateOptions)

\* getOrSet({key, fetcher, ...options}) or client.getOrSet(key, fetcher,
\* options) up to the flow.  A failed validation
\* fails the call; otherwise the flow starts at the cache probe, with the
\* per-call ownerId when one is passed.  A finite waitMax that is passed is
\* the instance's own.  With validation turned off the caller has asserted
\* the shapes of fetcher and options; the key is any string.
GetOrSet(c) ==
  /\ call[c].pc = "idle"
  /\ request.stage = "none"
  /\ \E key \in KeyInputs, fetcher \in FunctionInputs, options \in OptionInputs,
        adapterLeases \in BOOLEAN, optionsLeases \in BOOLEAN, validateOptions \in BOOLEAN,
        oneShot \in BOOLEAN :
       /\ validateOptions \/ (fetcherSchema(fetcher) /\ callOptionsSchema(options))
       /\ LET req == [stage |-> "none", key |-> key, fetcher |-> fetcher,
                      options |-> options, adapterLeases |-> adapterLeases,
                      leases |-> optionsLeases, validateOptions |-> validateOptions,
                      oneShot |-> oneShot, label |-> "none"]
              label == Validate(req)
          IN /\ request' = [req EXCEPT !.stage = IF label = "ok" THEN "flow" ELSE "failed",
                                       !.label = label]
             /\ Upd(c, IF label # "ok"
                       THEN [call[c] EXCEPT !.pc = "done", !.error = "VALIDATION_ERROR"]
                       ELSE [call[c] EXCEPT
                               !.owner = IF options.ownerId.given THEN c ELSE InstanceOwner,
                               !.pc = "probe"])
  /\ UNCHANGED <<now, cache, leases, opts, lastOp, faults, hookRun, phaseRun, registry, remote>>

\* One call with raw arguments, and, once it has passed validation, a second
\* call of the same key on the same instance; no operation fails.
InitValidation ==
  /\ now = 0
  /\ cache = [k \in Stores |-> NoEntry]
  /\ leases = [k \in Stores |-> NoLease]
  /\ opts \in [leaseTtl : LeaseTtls, waitMax : WaitMaxes, waitStep : WaitSteps, cacheTtl : {NoTtl}]
  /\ call = [c \in Calls |-> IdleCall]
  /\ faults = MaxFaults
  /\ lastOp = NoOp
  /\ hookRun = NoHookRun
  /\ request = NoRequest
  /\ phaseRun = NoPhaseRun
  /\ registry = NoRegistry
  /\ remote = NoRemote

NextValidation ==
  \/ Tick
  \/ GetOrSet(1)
  \/ request.stage = "flow" /\ Start(2)
  \/ \E c \in Calls : CallStep(c)

ValidationSpec == InitValidation /\ [][NextValidation]_vars

\* -------------------------------------------------- the phase runner
\* Phase
Phases ==
  {"validation", "cache.get", "cache.set", "leases.acquire", "leases.release",
   "leases.markReady", "leases.isReady", "fetcher", "hooks.onHit", "hooks.onLeader",
   "hooks.onFollowerWait", "hooks.onFallback", "waitStrategy", "wait.sleep", "abort"}

\* errorTags: the tags of the cache-locking errors.
errorTags ==
  {"VALIDATION_ERROR", "CACHE_GET_FAILED", "CACHE_SET_FAILED", "LEASE_ACQUIRE_FAILED",
   "LEASE_RELEASE_FAILED", "LEASE_READY_FAILED", "FETCHER_FAILED", "HOOK_FAILED",
   "WAIT_STRATEGY_FAILED", "WAIT_FAILED", "ABORTED"}

\* phaseConfig: the adapter of each phase and the error its toError builds.
phaseConfig(phase) ==
  CASE phase = "validation" -> [adapter |-> "validation", tag |-> "VALIDATION_ERROR"]
    [] phase = "cache.get" -> [adapter |-> "cache", tag |-> "CACHE_GET_FAILED"]
    [] phase = "cache.set" -> [adapter |-> "cache", tag |-> "CACHE_SET_FAILED"]
    [] phase = "leases.acquire" -> [adapter |-> "leases", tag |-> "LEASE_ACQUIRE_FAILED"]
    [] phase = "leases.release" -> [adapter |-> "leases", tag |-> "LEASE_RELEASE_FAILED"]
    [] phase = "leases.markReady" -> [adapter |-> "leases", tag |-> "LEASE_READY_FAILED"]
    [] phase = "leases.isReady" -> [adapter |-> "leases", tag |-> "LEASE_READY_FAILED"]
    [] phase = "fetcher" -> [adapter |-> "fetcher", tag |-> "FETCHER_FAILED"]
    [] phase = "hooks.onHit" -> [adapter |-> "hooks", tag |-> "HOOK_FAILED"]
    [] phase = "hooks.onLeader" -> [adapter |-> "hooks", tag |-> "HOOK_FAILED"]
    [] phase = "hooks.onFollowerWait" -> [adapter |-> "hooks", tag |-> "HOOK_FAILED"]
    [] phase = "hooks.onFallback" -> [adapter |-> "hooks", tag |-> "HOOK_FAILED"]
    [] phase = "waitStrategy" -> [adapter |-> "wait", tag |-> "WAIT_STRATEGY_FAILED"]
    [] phase = "wait.sleep" -> [adapter |-> "wait", tag |-> "WAIT_FAILED"]
    [] OTHER -> [adapter |-> "wait", tag |-> "ABORTED"]

\* isCacheLockingError: an object whose _tag is one of errorTags.
isCacheLockingError(failure) == failure.tag \in errorTags

\* cloneCacheLockingError: a new error of the same class from the fields of
\* the old one.
cloneCacheLockingError(failure) ==
  [tag |-> failure.tag, message |-> failure.message, context |-> failure.context,
   cause |-> failure.cause]

\* PhaseRunner.buildContext
buildContext(phase, key) ==
  [key |-> key, phase |-> phase, adapter |-> phaseConfig(phase).adapter]

\* A variant of mapError that wraps every failure, tagged or not.
mapError_AlwaysWrap(phase, context, message, failure) ==
  [tag |-> phaseConfig(phase).tag, message |-> message, context |-> context,
   cause |-> failure.id]

\* PhaseRunner.mapError
mapError(phase, context, message, failure) ==
  IF isCacheLockingError(failure)
  THEN cloneCacheLockingError(failure)
  ELSE [tag |-> phaseConfig(phase).tag, message |-> message, context |-> context,
        cause |-> failure.id]

\* What the action of a phase may throw or reject with: a plain Error, an
\* AdapterError of an adapter, or a cache-locking error raised earlier, in
\* any phase and for any key, with or without a cause of its own.
RawFailures ==
  {[id |-> "e1", tag |-> "none", message |-> "boom", context |-> NoContext, cause |-> "none"],
   [id |-> "e2", tag |-> "ADAPTER_ERROR", message |-> "boom", context |-> NoContext, cause |-> "e1"]}

TaggedFailures ==
  {[id |-> "e3", tag |-> t, message |-> "earlier",
    context |-> buildContext(ph, k), cause |-> cs] :
     t \in errorTags, ph \in Phases, k \in Keys, cs \in {"none", "e1"}}

\* One invocation of runSync / runPromise: phase, context {key}, message and
\* an action that succeeds (no failure) or fails.
InitPhase ==
  /\ now = 0
  /\ cache = [k \in Stores |-> NoEntry]
  /\ leases = [k \in Stores |-> NoLease]
  /\ opts \in [leaseTtl : LeaseTtls, waitMax : WaitMaxes, waitStep : WaitSteps, cacheTtl : {NoTtl}]
  /\ call = [c \in Calls |-> IdleCall]
  /\ faults = 0
  /\ lastOp = NoOp
  /\ hookRun = NoHookRun
  /\ request = NoRequest
  /\ \E ph \in Phases, k \in Keys, f \in {NoFailure} \cup RawFailures \cup TaggedFailures :
       phaseRun = [stage |-> "running", phase |-> ph, key |-> k, message |-> "phase failed",
                   failure |-> f, error |-> NoError]
  /\ registry = NoRegistry
  /\ remote = NoRemote

\* Effect.try / Effect.tryPromise with catch: (cause) => mapError(...)
RunPhase ==
  /\ phaseRun.stage = "running"
  /\ phaseRun' =
       IF phaseRun.failure = NoFailure
       THEN [phaseRun EXCEPT !.stage = "succeeded"]
       ELSE [phaseRun EXCEPT
               !.stage = "failed",
               !.error = mapError(phaseRun.phase, buildContext(phaseRun.phase, phaseRun.key),
                                  phaseRun.message, phaseRun.failure)]
  /\ UNCHANGED <<now, cache, leases, opts, call, faults, lastOp, hookRun, request, registry, remote>>

NextPhase == RunPhase

PhaseSpec == InitPhase /\ [][NextPhase]_vars

\* ------------------------------------------------------ adapter resolution
\* adapterCache.get(adapter): the WeakMap is keyed by the descriptor object.
CachedAdapter(reg, d) == reg.adapterCache[d]

\* resolveAdapterConfig: { type: 'memory' } without options is the shared
\* adapter; another descriptor is looked up by identity and, when absent,
\* createAdapter makes a new adapter that is stored under the descriptor.
resolveAdapterConfig(reg, d) ==
  IF ~HasOptions(d) THEN [adapter |-> SharedMemoryAdapter, reg |-> reg]
  ELSE IF CachedAdapter(reg, d) # NoAdapter
       THEN [adapter |-> CachedAdapter(reg, d), reg |-> reg]
       ELSE [adapter |-> reg.created + 1,
             reg |-> [reg EXCEPT !.created = @ + 1,
                                 !.adapterCache[d] = reg.created + 1]]

\* resolveAdapter: the alias 'memory' is the shared adapter, a descriptor
\* goes through resolveAdapterConfig.
resolveAdapter(reg, input) ==
  IF input.kind = "alias" THEN [adapter |-> SharedMemoryAdapter, reg |-> reg]
  ELSE resolveAdapterConfig(reg, input.id)

\* createAdapter can make one more adapter within the bound.
CanResolve(reg, input) ==
  IF input.kind = "alias" THEN TRUE
  ELSE IF ~HasOptions(input.id) THEN TRUE
  ELSE IF CachedAdapter(reg, input.id) # NoAdapter THEN TRUE
  ELSE reg.created < MaxAdapters

\* The resolution is recorded for the input it was made for.
Resolved(reg, input, adapter) == [reg EXCEPT !.seen[input] = @ \cup {adapter}]

\* runtime.getOrSetEffect(key, fetcher) provided with the layer of an
\* adapter: call c starts its flow on the cache and leases of that adapter.
\* The flow is the chain of effects of the runtime, one step at a time, so
\* the calls on one adapter overlap.
StartsOn(reg, c, via, input, adapter, owner) ==
  /\ call[c].pc = "idle"
  /\ \A d \in Calls : d < c => call[d].pc # "idle"
  /\ Upd(c, [call[c] EXCEPT !.owner = owner, !.pc = "probe", !.store = AdapterStore(adapter)])
  /\ registry' = [reg EXCEPT !.calls[c] = [via |-> via, input |-> input, adapter |-> adapter]]

\* adapterSchema = Union(adapterConfigSchema, adapterInstanceSchema): both
\* members are objects, so a descriptor object decodes and the string
\* 'memory' does not.
adapterSchema(input) == input.kind = "descriptor"

\* normalizeCacheLockingOptions up to resolveAdapter: validateBaseOptions
\* decodes options.adapter unless options.validateOptions === false.
AdapterRejected(input, validateOptions) == validateOptions /\ ~adapterSchema(input)

\* The call fails with the ValidationError of its options before an adapter
\* is resolved.
RejectedCall(c, via, input) ==
  /\ call[c].pc = "idle"
  /\ \A d \in Calls : d < c => call[d].pc # "idle"
  /\ Upd(c, [call[c] EXCEPT !.pc = "done", !.error = "VALIDATION_ERROR"])
  /\ registry' = [registry EXCEPT !.calls[c] = [via |-> via, input |-> input, adapter |-> NoAdapter]]

\* The one-shot getOrSet of factory.ts: the options of the call are
\* normalized, which validates them and resolves the adapter, then the call
\* starts on the adapter.
GetOrSetOnce ==
  /\ \E input \in AdapterInputs, c \in Calls, validateOptions \in BOOLEAN :
       IF AdapterRejected(input, validateOptions)
       THEN RejectedCall(c, "once", input)
       ELSE /\ CanResolve(registry, input)
            /\ \E o \in OwnerChoices(c) :
                 LET r == resolveAdapter(registry, input) IN
                   StartsOn(Resolved(r.reg, input, r.adapter), c, "once", input, r.adapter, o)
  /\ UNCHANGED <<now, cache, leases, opts, faults, lastOp, hookRun, request, phaseRun, remote>>

\* createCacheLocking: the options are normalized as for the one-shot call;
\* the client keeps the cache and leases of the adapter resolved from them.
\* A rejected createCacheLocking makes no client.
CreateClient ==
  /\ \E n \in Clients, input \in AdapterInputs, validateOptions \in BOOLEAN :
       /\ registry.clients[n] = NoAdapter
       /\ IF AdapterRejected(input, validateOptions)
          THEN registry' = [registry EXCEPT !.lastCreate[n] = "VALIDATION_ERROR"]
          ELSE /\ CanResolve(registry, input)
               /\ LET r == resolveAdapter(registry, input) IN
                    registry' = [Resolved(r.reg, input, r.adapter) EXCEPT
                                   !.clients[n] = r.adapter, !.lastCreate[n] = "created"]
  /\ UNCHANGED <<now, cache, leases, opts, call, faults, lastOp, hookRun, request, phaseRun, remote>>

\* client.getOrSet: the call starts on the adapter the client was made with.
ClientGetOrSet ==
  /\ \E n \in Clients, c \in Calls :
       /\ registry.clients[n] # NoAdapter
       /\ \E o \in OwnerChoices(c) :
            StartsOn(registry, c, "client", NoAdapterCall.input, registry.clients[n], o)
  /\ UNCHANGED <<now, cache, leases, opts, faults, lastOp, hookRun, request, phaseRun, remote>>

\* The calls of this specification run with one set of options and without
\* a failing operation or a signal; values are cached without expiry.
InitAdapter ==
  /\ now = 0
  /\ cache = [k \in Stores |-> NoEntry]
  /\ leases = [k \in Stores |-> NoLease]
  /\ opts \in [leaseTtl : LeaseTtls, waitMax : WaitMaxes, waitStep : WaitSteps, cacheTtl : {NoTtl}]
  /\ call = [c \in Calls |-> IdleCall]
  /\ faults = MaxFaults
  /\ lastOp = NoOp
  /\ hookRun = NoHookRun
  /\ request = NoRequest
  /\ phaseRun = NoPhaseRun
  /\ registry = NoRegistry
  /\ remote = NoRemote

NextAdapter ==
  \/ Tick
  \/ GetOrSetOnce
  \/ CreateClient
  \/ ClientGetOrSet
  \/ \E c \in Calls : CacheProbe(c)
  \/ \E c \in Calls : HookOnHit(c)
  \/ \E c \in Calls : Acquire(c)
  \/ \E c \in Calls : LeaderFetch(c)
  \/ \E c \in Calls : LeaderSet(c)
  \/ \E c \in Calls : LeaderMarkReady(c)
  \/ \E c \in Calls : HookOnLeader(c)
  \/ \E c \in Calls : LeaderRelease(c)
  \/ \E c \in Calls : Poll(c)
  \/ \E c \in Calls : PollReady(c)
  \/ \E c \in Calls : Wake(c)
  \/ \E c \in Calls : WaitTimeout(c)
  \/ \E c \in Calls : FinalGet(c)
  \/ \E c \in Calls : HookOnFollowerWait(c)
  \/ \E c \in Calls : FallbackFetch(c)
  \/ \E c \in Calls : HookOnFallback(c)

AdapterSpec == InitAdapter /\ [][NextAdapter]_vars

\* ------------------------------------------- the lease store on its own
\* Direct use of MemoryLeases: any sequence of acquire, release, markReady
\* and isReady calls and clock advances, by two owners on two keys.
DirectOwners == {1, 2}
DirectTtls == {0, 1, 2}

Direct(op, k, o, ttl, role, leaseUntil, ready, expired) ==
  lastOp' = [op |-> op, key |-> k, owner |-> o, ttl |-> ttl, at |-> now, pre |-> leases,
             role |-> role, leaseUntil |-> leaseUntil, ready |-> ready, expired |-> expired]

DirectAcquireOf(keys, ttls) ==
  \E k \in keys, o \in DirectOwners, ttl \in ttls :
    LET a == LeaseAcquire(leases[k], o, ttl, now) IN
      /\ leases' = [leases EXCEPT ![k] = a.entry]
      /\ Direct("acquire", k, o, ttl, a.role, a.leaseUntil, FALSE, FALSE)
      /\ UNCHANGED <<now, cache, opts, call, faults, hookRun, request, phaseRun, registry, remote>>

DirectRelease ==
  \E k \in Keys, o \in DirectOwners :
    /\ leases' = [leases EXCEPT ![k] = LeaseRelease(leases[k], o)]
    /\ Direct("release", k, o, 0, "none", 0, FALSE, FALSE)
    /\ UNCHANGED <<now, cache, opts, call, faults, hookRun, request, phaseRun, registry, remote>>

DirectMarkReady ==
  \E k \in Keys :
    /\ leases' = [leases EXCEPT ![k] = LeaseMarkReady(leases[k])]
    /\ Direct("markReady", k, 0, 0, "none", 0, FALSE, FALSE)
    /\ UNCHANGED <<now, cache, opts, call, faults, hookRun, request, phaseRun, registry, remote>>

DirectIsReady ==
  \E k \in Keys :
    LET s == LeaseIsReady(leases[k], now) IN
      /\ leases' = [leases EXCEPT ![k] = s.entry]
      /\ Direct("isReady", k, 0, 0, "none", 0, s.ready, s.expired)
      /\ UNCHANGED <<now, cache, opts, call, faults, hookRun, request, phaseRun, registry, remote>>

DirectAcquire == DirectAcquireOf(Keys, DirectTtls)

NextLease ==
  \/ Tick
  \/ DirectAcquire
  \/ DirectRelease
  \/ DirectMarkReady
  \/ DirectIsReady

LeaseSpec == Init /\ [][NextLease]_vars

\* ------------------------------------------ the memory adapter's TTLs
\* Direct use of MemoryCache and MemoryLeases on one key with TTLs of either
\* sign.
TtlInputs == {-2, -1, 0, 1}

\* The record of a cache operation: owner holds the value written or read.
DirectCache(op, k, value, ttl) ==
  lastOp' = [NoOp EXCEPT !.op = op, !.key = k, !.owner = value, !.ttl = ttl,
                         !.at = now, !.pre = leases]

TtlAcquire == DirectAcquireOf({CallKey}, TtlInputs)

TtlCacheSet ==
  \E k \in {CallKey}, v \in Calls, ttl \in TtlInputs :
    /\ cache' = [cache EXCEPT ![k] = CacheSetWithTtl(v, ttl, now)]
    /\ DirectCache("cache.set", k, v, ttl)
    /\ UNCHANGED <<now, leases, opts, call, faults, hookRun, request, phaseRun, registry, remote>>

TtlCacheGet ==
  \E k \in {CallKey} :
    LET g == CacheGet(cache[k], now) IN
      /\ cache' = [cache EXCEPT ![k] = g.entry]
      /\ DirectCache("cache.get", k, g.value, 0)
      /\ UNCHANGED <<now, leases, opts, call, faults, hookRun, request, phaseRun, registry, remote>>

NextTtl ==
  \/ Tick
  \/ TtlAcquire
  \/ TtlCacheSet
  \/ TtlCacheGet

TtlSpec == Init /\ [][NextTtl]_vars

\* ------------------------------------------------ the remote lease stores
\* RedisLeases, S3Leases and PostgresLeases used directly by two owners on
\* one key.  A call that makes several requests to the store is one step per
\* request, so the calls of the two owners interleave between requests.
RemoteKinds == {"redis", "s3", "postgres"}
RemoteTtls == {1, 2}
ReadyTtls == {2}

\* The ready key (Redis) or ready object (S3) of the key.
NoReady == [set |-> FALSE, expiresAt |-> 0]

NoRes == [op |-> "none", role |-> "none", leaseUntil |-> Absent, ready |-> FALSE, expired |-> FALSE]
Res(op, role, ready, expired) ==
  [op |-> op, role |-> role, leaseUntil |-> Absent, ready |-> ready, expired |-> expired]

\* The LeaseAcquireResult { role, leaseUntil }; the role "failed" stands for
\* an acquire that rejects.
Acquired(role, leaseUntil) ==
  [op |-> "acquire", role |-> role, leaseUntil |-> leaseUntil, ready |-> FALSE, expired |-> FALSE]

\* A call under way: its position, the clock reading and the expiry it
\* computed before it sent its request, the ttl it asked for, the number the
\* store answered (a pTTL or an expiry), the record it read, and the owner's
\* last result.  The store applies a request at one instant and the call
\* reads its clock at another, before the request is sent or after the reply
\* has come; the clock may advance and other calls may act in between.
IdleOp == [pc |-> "idle", at |-> 0, until |-> 0, ttl |-> 0, read |-> 0, seen |-> NoLease,
           res |-> NoRes]

InitRemote ==
  /\ now = 0
  /\ cache = [k \in Stores |-> NoEntry]
  /\ leases = [k \in Stores |-> NoLease]
  /\ opts \in [leaseTtl : LeaseTtls, waitMax : WaitMaxes, waitStep : WaitSteps, cacheTtl : {NoTtl}]
  /\ call = [c \in Calls |-> IdleCall]
  /\ faults = 0
  /\ lastOp = NoOp
  /\ hookRun = NoHookRun
  /\ request = NoRequest
  /\ phaseRun = NoPhaseRun
  /\ registry = NoRegistry
  /\ remote \in [kind : RemoteKinds, readyTtl : ReadyTtls, lease : {NoLease}, ready : {NoReady},
                 marked : {FALSE}, op : {[o \in DirectOwners |-> IdleOp]}]

\* Owner o is at position pc of a call on the store of the given kind.
At(kind, o, pc) == remote.kind = kind /\ remote.op[o].pc = pc

\* The call of owner o returns res.
Returns(r, o, res) == [r EXCEPT !.op[o] = [IdleOp EXCEPT !.res = res]]

\* The call of owner o goes on to its next request.
GoesOn(r, o, pc) == [r EXCEPT !.op[o].pc = pc]

\* markReady is called by runLeader only: the owner's latest call on the
\* store is an acquire that returned leader.
IsLeader(o) == remote.op[o].res.op = "acquire" /\ remote.op[o].res.role = "leader"

\* A new lease record; marked tells whether markReady has been called since
\* the record was created.
Leads(r, o, until) ==
  [r EXCEPT !.lease = [holder |-> o, expiresAt |-> until, ready |-> FALSE], !.marked = FALSE]

RemoteFrame == UNCHANGED <<now, cache, leases, opts, call, faults, lastOp, hookRun, request, phaseRun, registry>>

\* ---- Redis: keys expire on their own (PX)
\* A key with a PX expiry exists until the expiry.
RedisExists(expiresAt, t) == expiresAt > t

\* RedisLeases.acquire, first request: SET lease owner PX ttl NX, as the
\* store applies it: a key that exists refuses the SET, otherwise the key is
\* set and expires ttl after the store applied it.
RedisAcquire(o) ==
  \E ttl \in RemoteTtls :
    /\ At("redis", o, "idle")
    /\ IF remote.lease # NoLease /\ RedisExists(remote.lease.expiresAt, now)
       THEN remote' = GoesOn(remote, o, "redisAcquireTtl")
       ELSE remote' = [Leads(remote, o, now + toMillisClamped(ttl)) EXCEPT
                         !.op[o].pc = "redisSetReply", !.op[o].ttl = toMillisClamped(ttl)]
    /\ RemoteFrame

\* RedisLeases.acquire, the reply OK has come: the caller is the leader
\* until clock.now() + ttl, the clock being read now.
RedisAcquireReply(o) ==
  /\ At("redis", o, "redisSetReply")
  /\ remote' = Returns(remote, o, Acquired("leader", now + remote.op[o].ttl))
  /\ RemoteFrame

\* pTTL: the milliseconds a key has left, -2 for a key that does not exist.
RedisPTtl(entry, t) ==
  IF entry # NoLease /\ RedisExists(entry.expiresAt, t) THEN entry.expiresAt - t ELSE -2

\* RedisLeases.acquire, second request after a refused SET: pTTL lease, as
\* the store applies it.
RedisAcquireTtl(o) ==
  /\ At("redis", o, "redisAcquireTtl")
  /\ remote' = [remote EXCEPT !.op[o].pc = "redisTtlReply",
                              !.op[o].read = RedisPTtl(remote.lease, now)]
  /\ RemoteFrame

\* RedisLeases.acquire, the reply of pTTL has come:
\* leaseUntil = ttlLeft > 0 ? clock.now() + ttlLeft : clock.now()
RedisAcquireTtlReply(o) ==
  /\ At("redis", o, "redisTtlReply")
  /\ LET ttlLeft == remote.op[o].read
     IN remote' = Returns(remote, o,
                          Acquired("follower", IF ttlLeft > 0 THEN now + ttlLeft ELSE now))
  /\ RemoteFrame

\* RedisLeases.release: REDIS_RELEASE_SCRIPT, GET == owner then DEL, atomic.
RedisRelease(o) ==
  /\ At("redis", o, "idle")
  /\ LET held == /\ remote.lease # NoLease
                 /\ RedisExists(remote.lease.expiresAt, now)
                 /\ remote.lease.holder = o
     IN remote' = Returns([remote EXCEPT !.lease = IF held THEN NoLease ELSE @], o,
                          Res("release", "none", FALSE, FALSE))
  /\ RemoteFrame

\* RedisLeases.markReady: SET ready '1' PX readyTtl
RedisMarkReady(o) ==
  /\ At("redis", o, "idle")
  /\ IsLeader(o)
  /\ remote' = Returns([remote EXCEPT !.ready = [set |-> TRUE, expiresAt |-> now + toMillisClamped(remote.readyTtl)],
                                      !.marked = TRUE], o,
                       Res("markReady", "none", FALSE, FALSE))
  /\ RemoteFrame

\* RedisLeases.isReady, first request: GET ready
RedisIsReadyGet(o) ==
  /\ At("redis", o, "idle")
  /\ IF remote.ready.set /\ RedisExists(remote.ready.expiresAt, now)
     THEN remote' = Returns(remote, o, Res("isReady", "none", TRUE, FALSE))
     ELSE remote' = GoesOn(remote, o, "redisTtl")
  /\ RemoteFrame

\* RedisLeases.isReady, second request: pTTL lease; expired: ttlLeft <= 0
RedisIsReadyTtl(o) ==
  /\ At("redis", o, "redisTtl")
  /\ LET live == remote.lease # NoLease /\ RedisExists(remote.lease.expiresAt, now)
     IN remote' = Returns(remote, o, Res("isReady", "none", FALSE, ~live))
  /\ RemoteFrame

\* ---- S3: objects stay until deleted; the expiry is metadata
\* S3Leases.acquire begins: now = clock.now(), leaseUntil = now + ttl, and
\* the PutObject is sent.
S3AcquireStart(o) ==
  \E ttl \in RemoteTtls :
    /\ At("s3", o, "idle")
    /\ remote' = [remote EXCEPT !.op[o].pc = "s3Put", !.op[o].at = now,
                                !.op[o].until = now + toMillisClamped(ttl)]
    /\ RemoteFrame

\* S3Leases.acquire, first request: PutObject If-None-Match: *, as the
\* store applies it, with the expiry the call computed at its start.
S3AcquirePut(o) ==
  /\ At("s3", o, "s3Put")
  /\ IF remote.lease = NoLease
     THEN remote' = Returns(Leads(remote, o, remote.op[o].until), o,
                            Acquired("leader", remote.op[o].until))
     ELSE remote' = GoesOn(remote, o, "s3Head")
  /\ RemoteFrame

\* S3Leases.acquire, second request: HeadObject; an object that is expired
\* at the clock reading of the call's start is to be replaced.
S3AcquireHead(o) ==
  /\ At("s3", o, "s3Head")
  /\ IF remote.lease = NoLease
     THEN remote' = Returns(remote, o, Acquired("follower", remote.op[o].at))
     ELSE IF remote.lease.expiresAt <= remote.op[o].at
          THEN remote' = [remote EXCEPT !.op[o].pc = "s3Replace", !.op[o].seen = remote.lease]
          ELSE remote' = Returns(remote, o, Acquired("follower", remote.lease.expiresAt))
  /\ RemoteFrame

\* The ETag of a lease object.  putLeaseObject sends Body: owner and keeps
\* the expiry in the Metadata; the ETag of an object written by PutObject is
\* the digest of its body, so it tells the owner and nothing else.
S3ETag(entry) == entry.holder

\* S3Leases.acquire, third request: PutObject If-Match: the ETag read.  A
\* matching ETag replaces the object; another ETag is a failed
\* precondition and the caller follows with the expiry it read.  When the
\* object is gone the store answers with a failed precondition or with
\* another error, which acquire throws.
S3AcquireReplace(o) ==
  /\ At("s3", o, "s3Replace")
  /\ IF remote.lease = NoLease
     THEN \/ remote' = Returns(remote, o, Acquired("follower", remote.op[o].seen.expiresAt))
          \/ remote' = Returns(remote, o, Acquired("failed", Absent))
     ELSE IF S3ETag(remote.lease) = S3ETag(remote.op[o].seen)
          THEN remote' = Returns(Leads(remote, o, remote.op[o].until), o,
                                 Acquired("leader", remote.op[o].until))
          ELSE remote' = Returns(remote, o, Acquired("follower", remote.op[o].seen.expiresAt))
  /\ RemoteFrame

\* S3Leases.release, first request: HeadObject, then the owner check.
S3ReleaseHead(o) ==
  /\ At("s3", o, "idle")
  /\ IF remote.lease = NoLease \/ remote.lease.holder # o
     THEN remote' = Returns(remote, o, Res("release", "none", FALSE, FALSE))
     ELSE remote' = GoesOn(remote, o, "s3Delete")
  /\ RemoteFrame

\* S3Leases.release, second request: DeleteObject of the lease key.
S3ReleaseDelete(o) ==
  /\ At("s3", o, "s3Delete")
  /\ remote' = Returns([remote EXCEPT !.lease = NoLease], o, Res("release", "none", FALSE, FALSE))
  /\ RemoteFrame

\* S3Leases.markReady begins: expiresAt = clock.now() + readyTtl, and the
\* PutObject of the ready key is sent.
S3MarkReadyStart(o) ==
  /\ At("s3", o, "idle")
  /\ IsLeader(o)
  /\ remote' = [remote EXCEPT !.op[o].pc = "s3Mark",
                              !.op[o].until = now + toMillisClamped(remote.readyTtl)]
  /\ RemoteFrame

\* S3Leases.markReady: the PutObject of the ready key, as the store applies
\* it, with the expiry the call computed at its start.
S3MarkReady(o) ==
  /\ At("s3", o, "s3Mark")
  /\ remote' = Returns([remote EXCEPT !.ready = [set |-> TRUE, expiresAt |-> remote.op[o].until],
                                      !.marked = TRUE], o,
                       Res("markReady", "none", FALSE, FALSE))
  /\ RemoteFrame

\* S3Leases.isReady, first request: HeadObject of the ready key, as the
\* store answers it.
S3IsReadyHead(o) ==
  /\ At("s3", o, "idle")
  /\ IF remote.ready.set
     THEN remote' = [remote EXCEPT !.op[o].pc = "s3ReadyReply",
                                  !.op[o].read = remote.ready.expiresAt]
     ELSE remote' = GoesOn(remote, o, "s3HeadLease")
  /\ RemoteFrame

\* S3Leases.isReady, the head of the ready key has come:
\* readyExpiresAt > clock.now() is ready, otherwise the ready key is to be
\* deleted.
S3IsReadyHeadReply(o) ==
  /\ At("s3", o, "s3ReadyReply")
  /\ IF remote.op[o].read > now
     THEN remote' = Returns(remote, o, Res("isReady", "none", TRUE, FALSE))
     ELSE remote' = [remote EXCEPT !.op[o].pc = "s3DropReady", !.op[o].read = 0]
  /\ RemoteFrame

\* S3Leases.isReady: DeleteObject of the expired ready key.
S3IsReadyDrop(o) ==
  /\ At("s3", o, "s3DropReady")
  /\ remote' = GoesOn([remote EXCEPT !.ready = NoReady], o, "s3HeadLease")
  /\ RemoteFrame

\* S3Leases.isReady, last request: HeadObject of the lease key, as the
\* store answers it; no object is expired: true.
S3IsReadyLease(o) ==
  /\ At("s3", o, "s3HeadLease")
  /\ IF remote.lease = NoLease
     THEN remote' = Returns(remote, o, Res("isReady", "none", FALSE, TRUE))
     ELSE remote' = [remote EXCEPT !.op[o].pc = "s3LeaseReply",
                                  !.op[o].read = remote.lease.expiresAt]
  /\ RemoteFrame

\* S3Leases.isReady, the head of the lease key has come:
\* expired: leaseExpiresAt <= clock.now()
S3IsReadyLeaseReply(o) ==
  /\ At("s3", o, "s3LeaseReply")
  /\ remote' = Returns(remote, o, Res("isReady", "none", FALSE, remote.op[o].read <= now))
  /\ RemoteFrame

\* ---- Postgres: one row per key
\* PostgresLeases.acquire begins: now = clock.now(), leaseUntil = now + ttl,
\* and the INSERT is sent with both.
PostgresAcquireStart(o) ==
  \E ttl \in RemoteTtls :
    /\ At("postgres", o, "idle")
    /\ remote' = [remote EXCEPT !.op[o].pc = "pgInsert", !.op[o].at = now,
                                !.op[o].until = now + toMillisClamped(ttl)]
    /\ RemoteFrame

\* PostgresLeases.acquire, first request: INSERT ... ON CONFLICT DO UPDATE
\* ... WHERE expires_at <= $4, one statement, as the store applies it with
\* the expiry and the clock reading ($4) the call sent; a returned row makes
\* the caller the leader.
PostgresAcquire(o) ==
  /\ At("postgres", o, "pgInsert")
  /\ IF remote.lease = NoLease \/ remote.lease.expiresAt <= remote.op[o].at
     THEN remote' = Returns(Leads(remote, o, remote.op[o].until), o,
                            Acquired("leader", remote.op[o].until))
     ELSE remote' = GoesOn(remote, o, "pgSelect")
  /\ RemoteFrame

\* PostgresLeases.acquire, second request when no row was returned: SELECT
\* expires_at; leaseUntil is the expiry of the row, or the clock reading of
\* the call's start when the row is gone.
PostgresAcquireSelect(o) ==
  /\ At("postgres", o, "pgSelect")
  /\ remote' = Returns(remote, o,
                       Acquired("follower", IF remote.lease = NoLease THEN remote.op[o].at
                                            ELSE remote.lease.expiresAt))
  /\ RemoteFrame

\* PostgresLeases.release: DELETE ... WHERE key = $1 AND owner = $2
PostgresRelease(o) ==
  /\ At("postgres", o, "idle")
  /\ remote' = Returns([remote EXCEPT !.lease = LeaseRelease(@, o)], o,
                       Res("release", "none", FALSE, FALSE))
  /\ RemoteFrame

\* PostgresLeases.markReady: UPDATE ... SET ready = true WHERE key = $1
PostgresMarkReady(o) ==
  /\ At("postgres", o, "idle")
  /\ IsLeader(o)
  /\ remote' = Returns([remote EXCEPT !.lease = LeaseMarkReady(@), !.marked = TRUE], o,
                       Res("markReady", "none", FALSE, FALSE))
  /\ RemoteFrame

\* PostgresLeases.isReady, first request: SELECT ready, expires_at, as the
\* store answers it; no row is expired: true.
PostgresIsReadySelect(o) ==
  /\ At("postgres", o, "idle")
  /\ IF remote.lease = NoLease
     THEN remote' = Returns(remote, o, Res("isReady", "none", FALSE, TRUE))
     ELSE remote' = [remote EXCEPT !.op[o].pc = "pgSelected", !.op[o].seen = remote.lease]
  /\ RemoteFrame

\* PostgresLeases.isReady, the row has come: expiresAt <= clock.now() goes
\* on to the DELETE, otherwise the row's ready flag is the answer.
PostgresIsReadyReply(o) ==
  /\ At("postgres", o, "pgSelected")
  /\ IF remote.op[o].seen.expiresAt <= now
     THEN remote' = [remote EXCEPT !.op[o].pc = "pgDelete", !.op[o].seen = NoLease]
     ELSE remote' = Returns(remote, o, Res("isReady", "none", remote.op[o].seen.ready, FALSE))
  /\ RemoteFrame

\* PostgresLeases.isReady, second request: DELETE ... WHERE key = $1
PostgresIsReadyDelete(o) ==
  /\ At("postgres", o, "pgDelete")
  /\ remote' = Returns([remote EXCEPT !.lease = NoLease], o, Res("isReady", "none", FALSE, TRUE))
  /\ RemoteFrame

NextRemote ==
  \/ Tick
  \/ \E o \in DirectOwners :
       \/ RedisAcquire(o) \/ RedisAcquireReply(o)
       \/ RedisAcquireTtl(o) \/ RedisAcquireTtlReply(o)
       \/ RedisRelease(o) \/ RedisMarkReady(o)
       \/ RedisIsReadyGet(o) \/ RedisIsReadyTtl(o)
       \/ S3AcquireStart(o) \/ S3AcquirePut(o) \/ S3AcquireHead(o) \/ S3AcquireReplace(o)
       \/ S3ReleaseHead(o) \/ S3ReleaseDelete(o)
       \/ S3MarkReadyStart(o) \/ S3MarkReady(o)
       \/ S3IsReadyHead(o) \/ S3IsReadyHeadReply(o) \/ S3IsReadyDrop(o)
       \/ S3IsReadyLease(o) \/ S3IsReadyLeaseReply(o)
       \/ PostgresAcquireStart(o) \/ PostgresAcquire(o) \/ PostgresAcquireSelect(o)
       \/ PostgresRelease(o) \/ PostgresMarkReady(o)
       \/ PostgresIsReadySelect(o) \/ PostgresIsReadyReply(o) \/ PostgresIsReadyDelete(o)

RemoteSpec == InitRemote /\ [][NextRemote]_vars

\* ================================================================= claims
Done(c) == call[c].pc = "done"
Succeeded(c) == Done(c) /\ call[c].error = "none"

\* Call c returns a result (not an error) in this step.
ReturnsOk(c) ==
  /\ call[c].pc # "done"
  /\ call'[c].pc = "done"
  /\ call'[c].error = "none"

RECURSIVE SumFetch(_)
SumFetch(S) ==
  IF S = {} THEN 0
  ELSE LET c == CHOOSE x \in S : TRUE IN call[c].nFetch + SumFetch(S \ {c})

FetchCount == SumFetch(Calls)
Leaders == {c \in Calls : call[c].role = "leader"}
\* The followers whose wait ended with the cache still empty.
FallbackFollowers == {c \in Calls : call[c].role = "follower" /\ call[c].waitOutcome = "FALLBACK"}

\* C1 as stated: the fetcher runs at most 1 + (number of followers whose wait
\* ran out before the leader cached) times.  (Every follower whose wait ended
\* in FALLBACK is counted, which only helps the claim; stated for the runs
\* in which no operation fails.)
C1_Original == faults = 0 => FetchCount <= 1 + Cardinality(FallbackFollowers)

\* C1, amended: the fetcher runs at most once per call that acquired as
\* leader plus once per follower whose wait ended with the cache empty; when
\* one call acquired as leader and finished its fetch and no follower fell
\* back, exactly one fetch has happened.
C1_FetchBound ==
  /\ FetchCount <= Cardinality(Leaders) + Cardinality(FallbackFollowers)
  /\ ( /\ Cardinality(Leaders) = 1
       /\ FallbackFollowers = {}
       /\ \A c \in Leaders : Succeeded(c) )
     => FetchCount = 1

C1_Witness ==
  \E c, d \in Calls :
    /\ Succeeded(c) /\ call[c].outcome = "MISS_LEADER"
    /\ Succeeded(d) /\ call[d].outcome = "MISS_FOLLOWER_HIT"
    /\ FetchCount = 1

\* C2: MemoryLeases.acquire returns leader exactly when the key has no
\* unexpired record at the call, then storing (owner, now+ttl, ready=false);
\* otherwise it returns follower with the incumbent's expiry and changes
\* nothing.
C2_AcquireCas ==
  lastOp.op = "acquire" =>
    LET k == lastOp.key
        old == lastOp.pre[k]
        free == old = NoLease \/ ~(old.expiresAt > lastOp.at)
    IN /\ (lastOp.role = "leader") <=> free
       /\ lastOp.role \in {"leader", "follower"}
       /\ lastOp.role = "leader" =>
            /\ leases = [lastOp.pre EXCEPT ![k] =
                 [holder |-> lastOp.owner, expiresAt |-> lastOp.at + lastOp.ttl, ready |-> FALSE]]
            /\ lastOp.leaseUntil = lastOp.at + lastOp.ttl
       /\ lastOp.role = "follower" =>
            /\ leases = lastOp.pre
            /\ lastOp.leaseUntil = old.expiresAt

C2_Witness ==
  /\ lastOp.op = "acquire"
  /\ lastOp.role = "leader"
  /\ lastOp.pre[lastOp.key] # NoLease
  /\ lastOp.pre[lastOp.key].ready
  /\ lastOp.pre[lastOp.key].holder # lastOp.owner

\* C3: a call that acquired as leader has attempted leases.release exactly
\* once by the time its flow has ended, whatever the flow's result, and not
\* before.
C3_ReleaseOnce ==
  \A c \in Calls :
    call[c].role = "leader" =>
      IF call[c].pc \in {"done", "joinAbort"} THEN call[c].nRelease = 1
      ELSE call[c].nRelease = 0

C3_Witness ==
  \E c \in Calls :
    /\ Done(c) /\ call[c].role = "leader" /\ call[c].nRelease = 1
    /\ call[c].error = "LEASE_READY_FAILED"

\* C4 as stated: a call whose signal fired after it acquired as leader and
\* before it completed fails with ABORTED, and its release was invoked
\* (stated for the runs in which no operation fails).
C4_AbortedLeader ==
  \A c \in Calls :
    (faults = 0 /\ Done(c) /\ call[c].abortedAsLeader) =>
      (call[c].error = "ABORTED" /\ call[c].nRelease >= 1)

\* C5: a call whose initial cache.get found a value returns it as HIT and
\* makes no lease call, no cache.set and no fetcher call; its steps leave
\* the lease store as it is.
C5_HitIsRead ==
  /\ [](\A c \in Calls :
         call[c].outcome = "HIT" =>
           /\ call[c].value # 0 /\ call[c].value = call[c].lastGet
           /\ call[c].role = "none"
           /\ call[c].nAcquire = 0 /\ call[c].nRelease = 0 /\ call[c].nMarkReady = 0
           /\ call[c].nSet = 0 /\ call[c].nFetch = 0)
  /\ [][\A c \in Calls :
         (call[c].pc \in {"probe", "onHit"} /\ call'[c] # call[c] /\ call'[c].lastGet # 0)
         => leases' = leases]_vars

C5_Witness == \E c \in Calls : Succeeded(c) /\ call[c].outcome = "HIT"

\* C6: a follower never calls cache.set, leases.release or
\* leases.markReady; what it fetches on fallback is returned and never
\* stored: every cached value was fetched by a leader.
C6_FollowerFrame ==
  /\ \A c \in Calls :
       call[c].role = "follower" =>
         /\ call[c].nSet = 0 /\ call[c].nRelease = 0 /\ call[c].nMarkReady = 0
         /\ (Succeeded(c) /\ call[c].outcome = "MISS_FOLLOWER_FALLBACK") =>
              (call[c].value = c /\ call[c].nFetch = 1)
  /\ cache[CallKey].value # 0 => call[cache[CallKey].value].role = "leader"

C6_Witness ==
  \E c \in Calls : Succeeded(c) /\ call[c].outcome = "MISS_FOLLOWER_FALLBACK"

\* C7: MISS_FOLLOWER_HIT is returned only with the value the call's last
\* cache.get returned, which another call wrote with cache.set, and without a
\* fetcher call of its own.
C7_FollowerHit ==
  \A c \in Calls :
    (Done(c) /\ call[c].outcome = "MISS_FOLLOWER_HIT") =>
      /\ call[c].lastGet # 0
      /\ call[c].value = call[c].lastGet
      /\ call[c].nFetch = 0
      /\ call[c].value \in Calls \ {c}
      /\ call[call[c].value].nSet >= 1

C7_Witness ==
  \E c \in Calls :
    /\ Succeeded(c) /\ call[c].outcome = "MISS_FOLLOWER_HIT"
    /\ call[c].waitOutcome = "HIT" /\ call[c].waited > 0

\* C8: an expired lease record never makes a caller a follower: a call that
\* misses the cache and acquires when the record's expiry has passed takes
\* the leader path with a lease of its own, and a follower only ever saw a
\* record that was unexpired at its acquire; the call that took the leader
\* path and returns with shouldCache true returns MISS_LEADER.
C8_ExpiredIsAbsent ==
  /\ [][\A c \in Calls :
         ( /\ call[c].pc = "acquire"
           /\ call'[c].nAcquire = call[c].nAcquire + 1
           /\ call'[c].error = "none"
           /\ leases[CallKey] # NoLease
           /\ leases[CallKey].expiresAt <= now )
         => ( /\ call'[c].role = "leader"
              /\ call'[c].pc = "fetch"
              /\ leases'[CallKey].holder = call[c].owner
              /\ leases'[CallKey].expiresAt = now + opts.leaseTtl )]_vars
  /\ [][\A c \in Calls :
         (call[c].pc = "acquire" /\ call'[c].role = "follower")
         => (leases[CallKey] # NoLease /\ leases[CallKey].expiresAt > now)]_vars
  /\ [](\A c \in Calls :
         (Succeeded(c) /\ call[c].role = "leader" /\ call[c].shouldCache)
         => call[c].outcome = "MISS_LEADER")

\* The holder hangs in its fetcher; the other call has returned MISS_LEADER
\* on a lease it acquired after the holder's expired.
C8_Witness ==
  \E c, d \in Calls :
    /\ call[c].pc = "fetch" /\ call[c].leaseUntil <= now
    /\ Succeeded(d) /\ call[d].outcome = "MISS_LEADER"
    /\ call[d].leaseUntil > call[c].leaseUntil

\* C9: MemoryLeases.release deletes the key's record only when its holder
\* is the given owner; otherwise the store is unchanged.
C9_ReleaseByOwner ==
  lastOp.op = "release" =>
    LET k == lastOp.key
        old == lastOp.pre[k]
    IN /\ (old = NoLease \/ old.holder # lastOp.owner) => leases = lastOp.pre
       /\ leases # lastOp.pre => (old.holder = lastOp.owner /\ leases[k] = NoLease)
       /\ \A j \in Keys \ {k} : leases[j] = lastOp.pre[j]
       /\ (old # NoLease /\ old.holder = lastOp.owner) => leases[k] = NoLease

C9_Witness ==
  /\ lastOp.op = "release"
  /\ lastOp.pre[lastOp.key] # NoLease
  /\ lastOp.pre[lastOp.key].holder # lastOp.owner
  /\ lastOp.pre[lastOp.key].expiresAt > now

\* An acquire on the key by a fresh owner, made right now, returns leader.
AcquireWouldLead(store, t) == LeaseAcquire(store[CallKey], -2, 1, t).role = "leader"

\* C10 as stated: when a leader call returns a result, shouldCache true
\* means MISS_LEADER and the cache holds the fetched value, shouldCache false
\* means MISS_LEADER_NOCACHE and no cache write by the call, and in both
\* cases an acquire that follows immediately returns leader (stated for the
\* runs in which no operation fails and cache entries do not expire).
C10_Original ==
  [][\A c \in Calls :
       (ReturnsOk(c) /\ call'[c].role = "leader" /\ faults' = 0 /\ opts.cacheTtl = NoTtl) =>
         /\ call'[c].shouldCache =>
              /\ call'[c].outcome = "MISS_LEADER"
              /\ CacheGet(cache'[CallKey], now').value = call'[c].value
         /\ ~call'[c].shouldCache =>
              /\ call'[c].outcome = "MISS_LEADER_NOCACHE"
              /\ call'[c].nSet = 0
         /\ AcquireWouldLead(leases', now')]_vars

\* C10, amended: when a leader call returns a result, shouldCache true means
\* MISS_LEADER and exactly one cache.set of the fetched value by the call
\* (still cached unless it expired or another call wrote since), shouldCache
\* false means MISS_LEADER_NOCACHE and no cache.set by the call; release was
\* attempted once, and if it did not fail and no other call has acquired as
\* leader, an acquire that follows immediately returns leader.
C10_LeaderReturn ==
  [][\A c \in Calls :
       (ReturnsOk(c) /\ call'[c].role = "leader") =>
         /\ call'[c].value = c /\ call'[c].nFetch = 1
         /\ call'[c].shouldCache =>
              /\ call'[c].outcome = "MISS_LEADER"
              /\ call'[c].nSet = 1 /\ call'[c].cached
              /\ (\A d \in Calls \ {c} : call'[d].nSet = 0) =>
                   /\ cache'[CallKey].value \in {0, c}
                   /\ opts.cacheTtl = NoTtl => CacheGet(cache'[CallKey], now').value = c
         /\ ~call'[c].shouldCache =>
              /\ call'[c].outcome = "MISS_LEADER_NOCACHE"
              /\ call'[c].nSet = 0 /\ ~call'[c].cached
         /\ call'[c].nRelease = 1
         /\ (~call'[c].releaseFailed /\ \A d \in Calls \ {c} : call'[d].role # "leader")
              => AcquireWouldLead(leases', now')]_vars

\* Both leader results have been returned, one by each call.
C10_Witness ==
  \E c, d \in Calls :
    /\ Succeeded(c) /\ call[c].outcome = "MISS_LEADER" /\ call[c].nRelease = 1
    /\ Succeeded(d) /\ call[d].outcome = "MISS_LEADER_NOCACHE" /\ call[d].nRelease = 1

\* C11: a follower whose poll finds the cache empty and the lease ready or
\* expired leaves the wait loop at that poll, without a sleep; a wait that
\* ends with the cache still empty is classified FALLBACK, and a follower
\* that returns MISS_FOLLOWER_FALLBACK has run its own fetcher exactly once.
C11_ReadyEndsWait ==
  /\ [][\A c \in Calls :
         ( /\ call[c].pc = "isReady"
           /\ call'[c] # call[c]
           /\ call'[c].signal = call[c].signal
           /\ call'[c].error = "none"
           /\ LET state == LeaseIsReady(leases[CallKey], now)
              IN state.ready \/ state.expired )
         => ( /\ call'[c].pc = "final"
              /\ call'[c].waited = (IF now - call[c].start < 0 THEN 0 ELSE now - call[c].start)
              /\ call'[c].nFetch = 0 )]_vars
  /\ [][\A c \in Calls :
         ( /\ call[c].pc = "final"
           /\ call'[c].pc = "onFollowerWait"
           /\ CacheGet(cache[CallKey], now).value = 0 )
         => call'[c].waitOutcome = "FALLBACK"]_vars
  /\ [](\A c \in Calls :
         /\ (Succeeded(c) /\ call[c].role = "follower" /\ call[c].waitOutcome = "FALLBACK")
              => call[c].outcome = "MISS_FOLLOWER_FALLBACK"
         /\ (Succeeded(c) /\ call[c].outcome = "MISS_FOLLOWER_FALLBACK")
              => (call[c].nFetch = 1 /\ call[c].value = c /\ call[c].waitOutcome = "FALLBACK"))

\* The leader returned without caching and the follower fell back before
\* waitMax had passed.
C11_Witness ==
  \E c, d \in Calls :
    /\ Succeeded(d) /\ call[d].outcome = "MISS_LEADER_NOCACHE"
    /\ Succeeded(c) /\ call[c].outcome = "MISS_FOLLOWER_FALLBACK"
    /\ call[c].waited >= 0 /\ call[c].waited < opts.waitMax
    /\ FetchCount = 2

\* The calls of the behaviour (two under Spec, three under Spec3).
Callers == DOMAIN call

\* Call c has returned MISS_LEADER.
ReturnedMissLeader(c) == Succeeded(c) /\ call[c].outcome = "MISS_LEADER"

\* C12 as stated: once a call has returned MISS_LEADER, a call whose initial
\* cache.get comes later finds that leader's value (stated for the runs in
\* which cache entries never expire and no operation fails).
C12_Original ==
  [][\A c, d \in Callers :
       ( /\ c # d /\ ReturnedMissLeader(c)
         /\ opts.cacheTtl = NoTtl
         /\ call[d].pc = "probe" /\ call'[d].pc # "probe"
         /\ call'[d].error = "none" )
       => (call'[d].pc = "onHit" /\ call'[d].value = call[c].value)]_vars

\* C12, amended: once a call has returned MISS_LEADER, a call whose initial
\* cache.get comes while the key's entry is unexpired finds the value written
\* last, which a leader fetched (the returned leader's own value when no
\* other call has written), takes the hit path, and on that path makes no
\* fetcher call and no lease call and returns HIT with the value it read.
C12_LaterHit ==
  /\ [][\A c, d \in Callers :
         ( /\ c # d /\ ReturnedMissLeader(c)
           /\ (opts.cacheTtl = NoTtl \/ cache[CallKey].expiresAt > now)
           /\ call[d].pc = "probe" /\ call'[d].pc # "probe"
           /\ call'[d].error = "none" )
         => ( /\ call'[d].pc = "onHit"
              /\ call'[d].value = cache[CallKey].value
              /\ call'[d].value \in Callers \ {d}
              /\ call[call'[d].value].role = "leader"
              /\ call[call'[d].value].nSet = 1
              /\ (\A e \in Callers \ {c} : call[e].nSet = 0) => call'[d].value = call[c].value
              /\ leases' = leases )]_vars
  /\ [](\A d \in Callers :
         (call[d].pc = "onHit" \/ call[d].outcome = "HIT") =>
           /\ call[d].nFetch = 0 /\ call[d].nAcquire = 0 /\ call[d].nRelease = 0
           /\ call[d].nMarkReady = 0 /\ call[d].nSet = 0
           /\ call[d].value = call[d].lastGet
           /\ Succeeded(d) => call[d].outcome = "HIT")

\* Two calls have returned MISS_LEADER with their own values and a third
\* has returned HIT with the value of the second writer.
C12_Witness ==
  \E c, e, d \in Callers :
    /\ c # e /\ c # d /\ e # d
    /\ ReturnedMissLeader(c) /\ ReturnedMissLeader(e)
    /\ Succeeded(d) /\ call[d].outcome = "HIT" /\ call[d].value = e
    /\ cache[CallKey].value = e

\* C13: in every successful result meta.leaseUntil is absent exactly when
\* the outcome is HIT and otherwise is the leaseUntil the call's one acquire
\* returned; meta.waited is absent for HIT and present, as the time measured
\* by the wait, for both follower outcomes.
C13_Meta ==
  \A c \in Callers :
    Succeeded(c) =>
      /\ call[c].meta.cache = call[c].outcome
      /\ (call[c].meta.leaseUntil = Absent) <=> (call[c].outcome = "HIT")
      /\ call[c].outcome # "HIT" =>
           /\ call[c].nAcquire = 1
           /\ call[c].meta.leaseUntil = call[c].leaseUntil
           /\ call[c].meta.leaseUntil >= 0
      /\ call[c].outcome = "HIT" => call[c].meta.waited = Absent
      /\ call[c].outcome \in {"MISS_FOLLOWER_HIT", "MISS_FOLLOWER_FALLBACK"} =>
           /\ call[c].meta.waited # Absent
           /\ call[c].meta.waited = call[c].waited
           /\ call[c].meta.waited >= 0

\* A hit and a follower result are there together.
C13_Witness ==
  \E c, d \in Callers :
    /\ Succeeded(c) /\ call[c].outcome = "HIT" /\ call[c].meta.leaseUntil = Absent
    /\ Succeeded(d) /\ call[d].outcome = "MISS_FOLLOWER_FALLBACK"
    /\ call[d].meta.waited > 0 /\ call[d].meta.leaseUntil > 0

\* The hook events a call with the given outcome fires, once each.
ApplicableHooks(outcome) ==
  CASE outcome = "HIT" -> {"onHit"}
    [] outcome \in {"MISS_LEADER", "MISS_LEADER_NOCACHE"} -> {"onLeader"}
    [] outcome = "MISS_FOLLOWER_HIT" -> {"onFollowerWait"}
    [] outcome = "MISS_FOLLOWER_FALLBACK" -> {"onFollowerWait", "onFallback"}
    [] OTHER -> {}

\* C14: a call that returned a result has fired each hook event that applies
\* to its outcome exactly once and no other; on the fallback path
\* onFollowerWait is fired before onFallback.
C14_HooksPerOutcome ==
  /\ [](\A c \in Callers :
         Succeeded(c) =>
           \A e \in HookEvents :
             call[c].fired[e] = (IF e \in ApplicableHooks(call[c].outcome) THEN 1 ELSE 0))
  /\ [][\A c \in Callers :
         call'[c].fired["onFallback"] > call[c].fired["onFallback"]
         => call[c].fired["onFollowerWait"] = 1]_vars

\* Results of the three kinds are there: a leader's and a follower hit.
C14_Witness ==
  \E c, d \in Callers :
    /\ Succeeded(c) /\ call[c].outcome = "MISS_LEADER" /\ call[c].fired["onLeader"] = 1
    /\ Succeeded(d) /\ call[d].outcome = "MISS_FOLLOWER_HIT"
    /\ call[d].fired["onFollowerWait"] = 1 /\ call[d].fired["onHit"] = 0

\* The HookRunner invocation has ended.
HookRunEnded == hookRun.idx = Len(HookOrder) + 1

\* C15: in one hook event the per-call hook is only called after the
\* instance hook, when there is one, has been called and the Effect it
\* returned has completed.
C15_BaseBeforeOverride ==
  \A i \in 1..Len(hookRun.log) :
    (hookRun.log[i] = <<"override", "called">> /\ hookRun.hooks.base # "absent")
    => /\ i = 3
       /\ hookRun.log[1] = <<"base", "called">>
       /\ hookRun.log[2] = <<"base", "completed">>

\* Both hooks are configured and have run to the end.
C15_Witness ==
  /\ HookRunEnded /\ hookRun.error = "none"
  /\ hookRun.hooks.base = "ok" /\ hookRun.hooks.override = "ok"
  /\ hookRun.log = << <<"base", "called">>, <<"base", "completed">>,
                       <<"override", "called">>, <<"override", "completed">> >>

\* C16 as stated: a step in which a hook of call c fails makes the call fail
\* with HOOK_FAILED (a leader first runs the release of its scope), and from
\* then on the call runs no fetcher, no cache or lease write and no hook.
C16_HookFailureFailsCall ==
  /\ [][\A c \in Callers :
         (call[c].error = "none" /\ call'[c].error = "HOOK_FAILED")
         => \/ call'[c].pc = "done"
            \/ call[c].pc = "onLeader" /\ call'[c].pc = "release"]_vars
  /\ [][\A c \in Callers :
         call[c].error = "HOOK_FAILED"
         => /\ call'[c].error = "HOOK_FAILED"
            /\ call'[c].nFetch = call[c].nFetch
            /\ call'[c].nSet = call[c].nSet
            /\ call'[c].nMarkReady = call[c].nMarkReady
            /\ call'[c].nAcquire = call[c].nAcquire
            /\ call'[c].fired = call[c].fired]_vars

\* C17: a call made with a signal that is already aborted fails with ABORTED
\* at once, and neither then nor later reads or writes the cache, touches
\* the lease store or runs its fetcher or a hook.
C17_PreAborted ==
  /\ [][\A c \in Callers :
         (call[c].pc = "idle" /\ call'[c].pc # "idle" /\ call'[c].signal = "aborted")
         => ( /\ call'[c].pc = "done" /\ call'[c].error = "ABORTED"
              /\ call'[c].outcome = "none"
              /\ cache' = cache /\ leases' = leases
              /\ call'[c].lastGet = 0 /\ call'[c].nFetch = 0 /\ call'[c].nSet = 0
              /\ call'[c].nAcquire = 0 /\ call'[c].nRelease = 0 /\ call'[c].nMarkReady = 0
              /\ call'[c].fired = NoHooks )]_vars
  /\ [][\A c \in Callers : call[c].pc = "done" => call'[c] = call[c]]_vars

\* The pre-aborted call has failed while the other call went through the
\* leader path on the same stores.
C17_Witness ==
  \E c, d \in Callers :
    /\ Done(c) /\ call[c].error = "ABORTED" /\ call[c].signal = "aborted"
    /\ call[c].nAcquire = 0 /\ call[c].nFetch = 0
    /\ Succeeded(d) /\ call[d].outcome = "MISS_LEADER"

C19_EveryCallReturns ==
  \A c \in Calls : (call[c].pc # "idle") ~> Done(c)

\* A text that is empty or consists of blanks only.
OnlyBlanks(text) == \A i \in 1..Len(text) : text[i] = " "

\* The raw arguments of the request are invalid: an empty or whitespace-only
\* key, a fetcher that is no function, an invalid per-call option, or no
\* leases from either the adapter or the options.
InvalidInput(req) ==
  \/ OnlyBlanks(req.key)
  \/ req.fetcher # "function"
  \/ req.options.ownerId.given /\ OnlyBlanks(req.options.ownerId.text)
  \/ req.options.waitMax = "infinite"
  \/ ~req.leases /\ ~req.adapterLeases

\* C20: with validation enabled, a getOrSet call with an invalid input (empty
\* or whitespace-only key, non-callable fetcher, invalid per-call option, or
\* an adapter without leases and none passed explicitly) fails with
\* VALIDATION_ERROR, and no step of the call is a cache.get, a leases.acquire
\* or a fetcher invocation: the stores are untouched.
C20_ValidationFirst ==
  /\ [](request.stage # "none" /\ request.validateOptions /\ InvalidInput(request)
          => /\ call[1].pc = "done"
             /\ call[1].error = "VALIDATION_ERROR"
             /\ call[1].nAcquire = 0
             /\ call[1].nFetch = 0
             /\ cache = [k \in Stores |-> NoEntry]
             /\ leases = [k \in Stores |-> NoLease])
  /\ [][request'.stage # "none" /\ request'.validateOptions /\ InvalidInput(request')
          => ~(\/ CacheProbe(1) \/ Poll(1) \/ FinalGet(1)
               \/ Acquire(1)
               \/ LeaderFetch(1) \/ FallbackFetch(1))]_vars

\* A call with a whitespace-only key and otherwise valid arguments has failed
\* validation with validation enabled.
C20_Witness ==
  /\ request.stage = "failed"
  /\ request.validateOptions
  /\ request.key = <<" ", " ">>
  /\ request.fetcher = "function"
  /\ request.options = NoOptions
  /\ request.adapterLeases
  /\ request.label = "key"
  /\ call[1].pc = "done"
  /\ call[1].error = "VALIDATION_ERROR"

\* The error a failing operation of the poll loop maps to: the poll's
\* cache.get, or its leases.isReady and wait strategy.
WaitLoopTags(pc) ==
  IF pc = "poll" THEN {"CACHE_GET_FAILED"}
  ELSE {"LEASE_READY_FAILED", "WAIT_STRATEGY_FAILED"}

\* C21 as stated: a failure of cache.get, leases.isReady or the wait strategy
\* inside the follower's wait loop ends the call with CACHE_GET_FAILED,
\* LEASE_READY_FAILED or WAIT_STRATEGY_FAILED; the call then makes no further
\* poll iteration and no fetcher invocation; a poll iteration starts only on
\* entry to the loop or after the sleep of the retry signal.
C21_NoRetry ==
  /\ [][\A c \in Callers :
         (InWait(c) /\ call[c].error = "none" /\ call'[c].error # "none")
         => /\ call'[c].pc = "done"
            /\ call'[c].error \in WaitLoopTags(call[c].pc)]_vars
  /\ [][\A c \in Callers :
         (call[c].role = "follower" /\ call[c].error # "none")
         => /\ call'[c].error = call[c].error
            /\ call'[c].nFetch = call[c].nFetch
            /\ call'[c].lastGet = call[c].lastGet
            /\ call'[c].attempts = call[c].attempts
            /\ call'[c].pc \in {"done", "joinAbort"}]_vars
  /\ [][\A c \in Callers :
         (call'[c].pc = "poll" /\ call[c].pc # "poll")
         => call[c].pc \in {"acquire", "sleep"}]_vars

\* C22: a failure of leases.release never changes the result of a leader
\* call.  When fetch, cache.set, markReady and onLeader succeeded, the call
\* whose release fails returns at that step with its MISS_LEADER or
\* MISS_LEADER_NOCACHE result and the fetched value; when an earlier step
\* failed, the call keeps that earlier error through the release; no call
\* ever carries LEASE_RELEASE_FAILED.
C22_ReleaseFailureSwallowed ==
  /\ [][\A c \in Callers :
         (call[c].pc = "release" /\ call'[c].releaseFailed)
         => IF call[c].error = "none"
            THEN /\ call'[c].pc = "done"
                 /\ call'[c].error = "none"
                 /\ call'[c].outcome = LeaderOutcome(call[c].shouldCache)
                 /\ call'[c].value = call[c].value
                 /\ call'[c].meta = buildMeta(call'[c].outcome, call[c].leaseUntil, Absent)
            ELSE /\ call'[c].pc \in {"done", "joinAbort"}
                 /\ call'[c].error = call[c].error
                 /\ call'[c].outcome = "none"]_vars
  /\ [](\A c \in Callers :
          /\ call[c].error # "LEASE_RELEASE_FAILED"
          /\ (call[c].releaseFailed /\ Done(c) /\ call[c].error = "none")
             => /\ call[c].outcome \in {"MISS_LEADER", "MISS_LEADER_NOCACHE"}
                /\ call[c].cached = (call[c].outcome = "MISS_LEADER")
                /\ call[c].nFetch = 1)

\* Both cases in one run: the release of a leader whose fetch had failed
\* has failed and the call ends with FETCHER_FAILED, and the release of a
\* leader whose steps all succeeded has failed and the call has returned
\* MISS_LEADER.
C22_Witness ==
  \E c, d \in Callers :
    /\ Done(c) /\ call[c].releaseFailed
    /\ call[c].error = "none"
    /\ call[c].outcome = "MISS_LEADER"
    /\ call[c].meta.cache = "MISS_LEADER"
    /\ call[d].pc \in {"done", "joinAbort"} /\ call[d].releaseFailed
    /\ call[d].role = "leader"
    /\ call[d].error = "FETCHER_FAILED"
    /\ call[d].nFetch = 1

\* The tag the claim assigns to a raw failure of each phase.
ExpectedTag(phase) ==
  CASE phase = "validation" -> "VALIDATION_ERROR"
    [] phase = "cache.get" -> "CACHE_GET_FAILED"
    [] phase = "cache.set" -> "CACHE_SET_FAILED"
    [] phase = "leases.acquire" -> "LEASE_ACQUIRE_FAILED"
    [] phase = "leases.release" -> "LEASE_RELEASE_FAILED"
    [] phase \in {"leases.markReady", "leases.isReady"} -> "LEASE_READY_FAILED"
    [] phase = "fetcher" -> "FETCHER_FAILED"
    [] phase \in {"hooks.onHit", "hooks.onLeader", "hooks.onFollowerWait",
                  "hooks.onFallback"} -> "HOOK_FAILED"
    [] phase = "waitStrategy" -> "WAIT_STRATEGY_FAILED"
    [] phase = "wait.sleep" -> "WAIT_FAILED"
    [] phase = "abort" -> "ABORTED"
    [] OTHER -> "none"

\* The adapter the context of each phase names.
ExpectedAdapter(phase) ==
  CASE phase = "validation" -> "validation"
    [] phase \in {"cache.get", "cache.set"} -> "cache"
    [] phase \in {"leases.acquire", "leases.release", "leases.markReady",
                  "leases.isReady"} -> "leases"
    [] phase = "fetcher" -> "fetcher"
    [] phase \in {"hooks.onHit", "hooks.onLeader", "hooks.onFollowerWait",
                  "hooks.onFallback"} -> "hooks"
    [] OTHER -> "wait"

\* C23: in every phase a raw (untagged) failure is mapped to the phase's tag
\* with the invocation's message, the context {key, phase, adapter} and the
\* original as cause, and a failure that is already a cache-locking error is
\* raised with the same tag, message, context and cause, whatever the phase.
C23_PhaseMapping ==
  phaseRun.stage = "failed" =>
    LET f == phaseRun.failure
        e == phaseRun.error
    IN IF f.tag \in {"VALIDATION_ERROR", "CACHE_GET_FAILED", "CACHE_SET_FAILED",
                     "LEASE_ACQUIRE_FAILED", "LEASE_RELEASE_FAILED", "LEASE_READY_FAILED",
                     "FETCHER_FAILED", "HOOK_FAILED", "WAIT_STRATEGY_FAILED", "WAIT_FAILED",
                     "ABORTED"}
       THEN /\ e.tag = f.tag
            /\ e.message = f.message
            /\ e.context = f.context
            /\ e.cause = f.cause
       ELSE /\ e.tag = ExpectedTag(phaseRun.phase)
            /\ e.message = phaseRun.message
            /\ e.context = [key |-> phaseRun.key, phase |-> phaseRun.phase,
                            adapter |-> ExpectedAdapter(phaseRun.phase)]
            /\ e.cause = f.id

\* A FETCHER_FAILED error raised for key j has passed through the cache.set
\* phase of key k and is still FETCHER_FAILED.
C23_Witness ==
  /\ phaseRun.stage = "failed"
  /\ phaseRun.phase = "cache.set"
  /\ phaseRun.key = "k"
  /\ phaseRun.failure.tag = "FETCHER_FAILED"
  /\ phaseRun.failure.context.key = "j"
  /\ phaseRun.error.tag = "FETCHER_FAILED"
  /\ phaseRun.error.context.phase = phaseRun.failure.context.phase

\* C24 as stated: with waitMax = 0 a follower never sleeps, never calls the
\* wait strategy, and its wait ends in FALLBACK.
C24_Original ==
  opts.waitMax = 0 =>
    \A c \in Callers :
      /\ call[c].pc # "sleep"
      /\ call[c].attempts = 0
      /\ call[c].waitOutcome \in {"none", "FALLBACK"}

\* C24, amended: with waitMax = 0 a follower never sleeps and never calls the
\* wait strategy; it polls at most once, and unless that poll already found
\* the value it performs the final cache check, which decides: a value
\* present gives MISS_FOLLOWER_HIT without a fetch, no value gives the
\* fallback fetch.
C24_ZeroWaitMax ==
  /\ [](opts.waitMax = 0 =>
          \A c \in Callers :
            /\ call[c].pc # "sleep"
            /\ call[c].attempts = 0
            /\ call[c].wakeAt = 0
            /\ (Succeeded(c) /\ call[c].role = "follower")
               => \/ /\ call[c].waitOutcome = "HIT"
                     /\ call[c].outcome = "MISS_FOLLOWER_HIT"
                     /\ call[c].nFetch = 0
                  \/ /\ call[c].waitOutcome = "FALLBACK"
                     /\ call[c].outcome = "MISS_FOLLOWER_FALLBACK"
                     /\ call[c].nFetch = 1)
  /\ [][opts.waitMax = 0 =>
          \A c \in Callers :
            /\ (call'[c].pc = "poll" /\ call[c].pc # "poll") => call[c].pc = "acquire"
            /\ (call[c].pc = "final" /\ call'[c].pc = "onFollowerWait")
               => call'[c].waitOutcome = IF call'[c].lastGet # 0 THEN "HIT" ELSE "FALLBACK"
            /\ (call[c].pc = "isReady" /\ call'[c].error = "none")
               => call'[c].pc \in {"isReady", "final"}]_vars

\* With waitMax = 0 a follower has returned MISS_FOLLOWER_FALLBACK after the
\* final cache check, having waited no time.
C24_Witness ==
  /\ opts.waitMax = 0
  /\ \E c \in Callers :
       /\ Succeeded(c) /\ call[c].role = "follower"
       /\ call[c].outcome = "MISS_FOLLOWER_FALLBACK"
       /\ call[c].waited = 0
\* -------------------------------------------------------------------- C25

\* C25 as stated, the follower's part: every follower that leaves the poll
\* loop performs one final cache.get, so the wait hands its outcome to
\* runFollower only after that read.
C25_Original ==
  [][\A c \in Callers :
       (call[c].pc # "onFollowerWait" /\ call'[c].pc = "onFollowerWait")
         => call[c].pc = "final"]_vars

\* C25, amended: per call there is one cache.get before lease acquisition;
\* a leader calls cache.set exactly once after a successful fetch when
\* shouldCache allows and never otherwise, and a follower never calls it;
\* a follower makes one cache.get per iteration of the poll loop, plus one
\* final cache.get exactly when the loop exits without a value: a poll that
\* found the value ends the wait with no further cache.get.
C25_GetSetCounts ==
  /\ [](\A c \in Callers :
          /\ call[c].pc = "probe" => call[c].nGet = 0
          /\ call[c].pc \in {"onHit", "acquire"} => call[c].nGet = 1
          /\ call[c].nAcquire = 0 => call[c].nGet <= 1
          /\ call[c].nSet <= 1
          /\ call[c].nSet = 1 =>
                call[c].role = "leader" /\ call[c].nFetch = 1 /\ call[c].shouldCache
          /\ (call[c].role = "leader" /\ call[c].pc \in {"markReady", "onLeader"})
               => call[c].nSet = IF call[c].shouldCache THEN 1 ELSE 0
          /\ (Succeeded(c) /\ call[c].role = "leader")
               => call[c].nSet = IF call[c].shouldCache THEN 1 ELSE 0
          /\ call[c].role = "leader" => call[c].nGet = 0
          /\ call[c].role = "follower" => call[c].nSet = 0
          /\ (call[c].pc \in {"poll", "sleep"} /\ call[c].nGet <= MaxAttempts)
               => call[c].nGet = call[c].attempts
          /\ call[c].pc = "isReady" => call[c].nGet = 1 + call[c].attempts
          /\ call[c].pc = "final" => call[c].nGet = 0 /\ call[c].lastGet = 0
          /\ call[c].pc = "onFollowerWait" =>
                /\ call[c].nGet <= 1
                /\ call[c].nGet = 0 => call[c].waitOutcome = "HIT" /\ call[c].lastGet # 0
          /\ call[c].pc \in {"fallbackFetch", "onFallback"} => call[c].nGet = 0)
  /\ [][\A c \in Callers :
          /\ (call[c].pc # "final" /\ call'[c].pc = "final") => InWait(c)
          /\ (call[c].pc = "final" /\ call'[c].pc = "onFollowerWait")
               => call'[c].nGet = 1
          /\ (call[c].pc = "poll" /\ call'[c].pc = "onFollowerWait")
               => call'[c].lastGet # 0 /\ call'[c].nGet = 0
          /\ (call[c].pc = "poll" /\ call'[c].pc = "isReady" /\ call[c].nGet <= MaxAttempts)
               => call'[c].nGet = call[c].nGet + 1
          /\ (call[c].pc # "onFollowerWait" /\ call'[c].pc = "onFollowerWait")
               => call[c].pc \in {"poll", "final"}]_vars

\* A leader has cached its value with one cache.set, and a follower is about
\* to report the value its first poll found: the wait is over with HIT and
\* no cache.get was made after the loop.
C25_Witness ==
  \E c, d \in Callers :
    /\ Succeeded(c) /\ call[c].role = "leader" /\ call[c].nSet = 1
    /\ call[d].pc = "onFollowerWait" /\ call[d].role = "follower"
    /\ call[d].waitOutcome = "HIT"
    /\ call[d].nGet = 0 /\ call[d].lastGet # 0 /\ call[d].waited = 0
\* -------------------------------------------------------------------- C26
\* C26: within one leader call the steps come in the order acquire, fetcher,
\* cache.set (only if shouldCache), markReady, onLeader, release: each step
\* starts only when the steps before it are done and none of the later ones
\* has started; the cache.set is done before the lease is marked ready or
\* released by a leader that goes on, and onLeader runs before release.
C26_LeaderOrder ==
  /\ [](\A c \in Callers :
          /\ call[c].nFetch > 0 /\ call[c].role = "leader" => call[c].nAcquire = 1
          /\ call[c].nSet > 0 => call[c].nFetch = 1 /\ call[c].nAcquire = 1
          /\ call[c].nMarkReady > 0 =>
                /\ call[c].nFetch = 1
                /\ call[c].shouldCache => call[c].nSet = 1 /\ call[c].cached
                /\ ~call[c].shouldCache => call[c].nSet = 0
          /\ call[c].fired["onLeader"] > 0 =>
                call[c].nMarkReady = 1 /\ call[c].fired["onLeader"] = 1
          /\ call[c].nRelease > 0 =>
                /\ call[c].nFetch = 1 /\ call[c].nRelease = 1
                /\ call[c].error = "none" =>
                      /\ call[c].fired["onLeader"] = 1
                      /\ call[c].nMarkReady = 1
                      /\ call[c].shouldCache => call[c].cached)
  /\ [][\A c \in Callers :
          /\ call'[c].nFetch # call[c].nFetch /\ call[c].role = "leader" =>
                call[c].nSet = 0 /\ call[c].nMarkReady = 0
                /\ call[c].fired["onLeader"] = 0 /\ call[c].nRelease = 0
          /\ call'[c].nSet # call[c].nSet =>
                call[c].nMarkReady = 0 /\ call[c].fired["onLeader"] = 0
                /\ call[c].nRelease = 0
          /\ call'[c].nMarkReady # call[c].nMarkReady =>
                call[c].fired["onLeader"] = 0 /\ call[c].nRelease = 0
          /\ call'[c].fired["onLeader"] # call[c].fired["onLeader"] =>
                call[c].nRelease = 0
          /\ call'[c].nRelease # call[c].nRelease =>
                call[c].pc = "release" /\ call'[c].pc \in {"done", "joinAbort"}]_vars

\* A leader has gone through all six steps and returned MISS_LEADER.
C26_Witness ==
  \E c \in Callers :
    /\ Succeeded(c) /\ call[c].outcome = "MISS_LEADER"
    /\ call[c].nAcquire = 1 /\ call[c].nFetch = 1 /\ call[c].nSet = 1
    /\ call[c].nMarkReady = 1 /\ call[c].fired["onLeader"] = 1
    /\ call[c].nRelease = 1
\* -------------------------------------------------------------------- C27
SharedInputs ==
  {i \in AdapterInputs : i.kind = "alias" \/ (i.kind = "descriptor" /\ i.id \in {1, 2})}

\* The value a cache.get on the adapter's store returns now (0: a miss).
StoredOn(adapter) == CacheGet(cache[AdapterStore(adapter)], now).value

\* C27 as stated: the alias 'memory' and every descriptor { type: 'memory' }
\* without options resolve to the one shared adapter, so a value cached
\* through one call or client instance is returned as HIT by a later call
\* made through another: every call made through any of them, and every
\* createCacheLocking given any of them, gets the shared adapter; the first
\* cache.get of such a call reads the shared store and, when that store
\* holds a value, the call returns that value as HIT; and a descriptor
\* object resolves to the same adapter every time it is passed.
C27_SharedMemoryAdapter ==
  /\ [](/\ \A i \in SharedInputs : registry.seen[i] \subseteq {SharedMemoryAdapter}
        /\ \A i \in AdapterInputs : Cardinality(registry.seen[i]) <= 1
        /\ \A n \in Clients : registry.lastCreate[n] # "VALIDATION_ERROR"
        /\ \A c \in Calls :
             /\ (registry.calls[c].via = "once" /\ registry.calls[c].input \in SharedInputs)
                  => registry.calls[c].adapter = SharedMemoryAdapter
             /\ registry.calls[c].adapter # NoAdapter
                  => call[c].store = AdapterStore(registry.calls[c].adapter))
  /\ [][\A c \in Calls :
          ( /\ registry.calls[c].adapter = SharedMemoryAdapter
            /\ call[c].pc = "probe" /\ call'[c].pc # "probe"
            /\ StoredOn(SharedMemoryAdapter) # 0 )
          => /\ call'[c].pc = "onHit"
             /\ call'[c].value = StoredOn(SharedMemoryAdapter)]_vars
  /\ [](\A c \in Calls :
          (registry.calls[c].adapter = SharedMemoryAdapter /\ call[c].pc = "done"
             /\ call[c].lastGet # 0 /\ call[c].role = "none")
          => call[c].outcome = "HIT" /\ call[c].value = call[c].lastGet)
\* -------------------------------------------------------------------- C28
\* C28: a negative TTL is a TTL of zero milliseconds at the memory adapter:
\* MemoryCache.set and a MemoryLeases.acquire that takes the lease store
\* expiry = the clock reading of the call, and no TTL gives an expiry before
\* that reading.
C28_NegativeTtlClamps ==
  /\ lastOp.op = "cache.set" =>
        /\ cache[lastOp.key].value = lastOp.owner
        /\ cache[lastOp.key].expiresAt >= lastOp.at
        /\ lastOp.ttl < 0 => cache[lastOp.key].expiresAt = lastOp.at
  /\ (lastOp.op = "acquire" /\ lastOp.role = "leader") =>
        /\ leases[lastOp.key].holder = lastOp.owner
        /\ leases[lastOp.key].expiresAt >= lastOp.at
        /\ lastOp.leaseUntil = leases[lastOp.key].expiresAt
        /\ lastOp.ttl < 0 => leases[lastOp.key].expiresAt = lastOp.at

\* At time 2 the lease of key k has been taken with ttl -2 and expires at 2,
\* while the cache holds for k an entry stored at time 1 that expired at 1.
C28_Witness ==
  /\ lastOp.op = "acquire" /\ lastOp.key = "k" /\ lastOp.ttl = -2
  /\ lastOp.role = "leader" /\ lastOp.at = 2
  /\ leases["k"].expiresAt = 2
  /\ cache["k"].value # 0 /\ cache["k"].expiresAt = 1
\* -------------------------------------------------------------------- C29
\* The cache holds an unexpired value for the key of the calls.
HoldsValue ==
  /\ cache[CallKey].value # 0
  /\ cache[CallKey].expiresAt = NoTtl \/ cache[CallKey].expiresAt > now

\* C29: a follower that left the wait loop without a value and whose final
\* cache.get is made while the cache holds an unexpired value takes that
\* value with outcome HIT; onFollowerWait is given HIT, the fetcher of the
\* call is never invoked, and the result of the call is MISS_FOLLOWER_HIT
\* with that value.
C29_FinalRead ==
  /\ [][\A c \in Callers :
          /\ (call[c].pc = "final" /\ call'[c].pc # "final" /\ HoldsValue
               /\ call'[c].error = "none")
               => /\ call'[c].pc = "onFollowerWait"
                  /\ call'[c].value = cache[CallKey].value
                  /\ call'[c].lastGet = cache[CallKey].value
                  /\ call'[c].waitOutcome = "HIT"
          /\ (call[c].pc = "onFollowerWait" /\ call[c].waitOutcome = "HIT"
               /\ call'[c].pc # "onFollowerWait")
               => /\ call'[c].fired["onFollowerWait"] = call[c].fired["onFollowerWait"] + 1
                  /\ call'[c].error = "none"
                       => /\ call'[c].pc = "done"
                          /\ call'[c].outcome = "MISS_FOLLOWER_HIT"
                          /\ call'[c].value = call[c].value]_vars
  /\ [](\A c \in Callers :
          (call[c].role = "follower" /\ call[c].waitOutcome = "HIT")
            => /\ call[c].nFetch = 0
               /\ call[c].fired["onFallback"] = 0
               /\ call[c].value # 0
               /\ Succeeded(c) => call[c].outcome = "MISS_FOLLOWER_HIT")

\* A follower left the loop without a value and found the leader's value
\* with the final cache.get: the wait ends with HIT and the fetcher has not
\* run.
C29_Witness ==
  \E c \in Callers :
    /\ call[c].pc = "onFollowerWait" /\ call[c].role = "follower"
    /\ call[c].waitOutcome = "HIT"
    /\ call[c].value # 0 /\ call[c].value = cache[CallKey].value
    /\ call[c].nGet = 1
    /\ call[c].nFetch = 0
\* -------------------------------------------------------------------- C30
\* C30: the wait strategy is invoked only when remaining = max(0, waitMax -
\* elapsed) is positive; the attempt it is given is the number of earlier
\* strategy invocations of the call; the delay slept is min(strategy delay,
\* remaining), which lies in [0, remaining].  The attempt is checked for
\* the invocations the model counts (the first MaxAttempts of a wait).
C30_StrategyDelay ==
  /\ [][\A c \in Callers :
          call'[c].attempts # call[c].attempts /\ call'[c].attempts # 0 =>
            LET elapsed == IF now - call[c].start < 0 THEN 0 ELSE now - call[c].start
                remaining == IF opts.waitMax - elapsed < 0 THEN 0 ELSE opts.waitMax - elapsed
            IN /\ call[c].pc = "isReady"
               /\ remaining > 0
               /\ call'[c].attempts = call[c].attempts + 1
               /\ call'[c].pc = "sleep" =>
                     /\ call'[c].waitCtx.attempt = call[c].attempts
                     /\ call'[c].waitCtx.remaining = remaining
                     /\ call'[c].waitCtx.at = now
                     /\ call'[c].waitCtx.delay = opts.waitStep]_vars
  /\ [](\A c \in Callers :
          call[c].pc = "sleep" =>
            LET slept == call[c].wakeAt - call[c].waitCtx.at
                delay == call[c].waitCtx.delay
                remaining == call[c].waitCtx.remaining
            IN /\ remaining > 0
               /\ call[c].nGet <= MaxAttempts =>
                     /\ call[c].waitCtx.attempt = call[c].attempts - 1
                     /\ call[c].waitCtx.attempt + 1 = call[c].nGet
               /\ slept = IF delay <= remaining THEN delay ELSE remaining
               /\ 0 <= slept /\ slept <= remaining)

\* A follower with waitMax 3 and waitStep 2 has called the strategy for the
\* second time at time 2, with attempt 1 and 1 ms remaining; the strategy
\* returned 2 ms and the follower sleeps 1 ms.
C30_Witness ==
  /\ opts.waitMax = 3 /\ opts.waitStep = 2
  /\ \E c \in Callers :
       /\ call[c].pc = "sleep"
       /\ call[c].waitCtx = [attempt |-> 1, remaining |-> 1, delay |-> 2, at |-> 2]
       /\ call[c].wakeAt = 3

\* ------------------------------------------------------------------- C31
\* C31: for calls that use the instance's default ownerId, the leader's
\* release deletes a lease record only if that call's own acquire created
\* it: the record removed by the release step of call c expires at the
\* leaseUntil that c's acquire returned (a record acquired later by another
\* call expires later, the lease TTL being positive).
C31_ReleaseOwnLease ==
  [][\A c \in Calls :
       ( /\ call[c].pc = "release" /\ call'[c].pc # "release"
         /\ call[c].owner = InstanceOwner
         /\ leases[CallKey] # NoLease /\ leases'[CallKey] = NoLease )
       => leases[CallKey].expiresAt = call[c].leaseUntil]_vars

\* ------------------------------------------------------------------- C32
\* C32: the ready flag of a lease record is set only by the call whose
\* acquire created that record: a markReady step of call c that turns the
\* flag of the key's record from false to true acts on the record that
\* expires at the leaseUntil c's acquire returned, so a ready record's
\* holder has finished its fetch.
C32_ReadyByHolder ==
  [][\A c \in Calls :
       ( /\ call[c].pc = "markReady" /\ call'[c].pc # "markReady"
         /\ leases[CallKey] # NoLease
         /\ ~leases[CallKey].ready /\ leases'[CallKey].ready )
       => /\ leases[CallKey].expiresAt = call[c].leaseUntil
          /\ \A d \in Calls \ {c} :
               (call[d].role = "leader" /\ call[d].leaseUntil = leases[CallKey].expiresAt)
                 => call[d].pc # "fetch"]_vars

\* ------------------------------------------------------------------- C33
\* C33: a leader writes the cache only while the lease its acquire created
\* is still the key's record and is unexpired at the write; so a write never
\* replaces a value cached by a leader that acquired later.
C33_SetUnderLease ==
  [][\A c \in Calls :
       (call[c].pc = "set" /\ cache'[CallKey] # cache[CallKey])
       => /\ leases[CallKey] # NoLease
          /\ leases[CallKey].expiresAt = call[c].leaseUntil
          /\ leases[CallKey].expiresAt > now
          /\ \A d \in Calls \ {c} :
               (call[d].cached /\ call[d].role = "leader")
                 => call[d].leaseUntil <= call[c].leaseUntil]_vars


\* ------------------------------------------------------------------- C37
\* The positions of the flow that come after leases.acquire.
AfterAcquirePcs ==
  {"fetch", "set", "markReady", "onLeader", "release",
   "poll", "isReady", "sleep", "final", "onFollowerWait", "fallbackFetch", "onFallback"}

\* C37: a call whose probe missed calls leases.acquire exactly once: no call
\* ever makes a second acquire, every call past the acquisition (or ended
\* with an outcome other than HIT) has made exactly one, a call in the
\* follower path has the follower role, and the follower path (wait, hook,
\* fallback fetch, onFallback) never creates or takes over a lease record
\* for the call.
C37_AcquireOnce ==
  /\ [](\A c \in Callers :
          /\ call[c].nAcquire <= 1
          /\ call[c].pc = "acquire" => call[c].nAcquire = 0
          /\ call[c].pc \in AfterAcquirePcs => call[c].nAcquire = 1
          /\ (call[c].pc = "done" /\ call[c].outcome \notin {"none", "HIT"})
               => call[c].nAcquire = 1
          /\ call[c].pc \in {"poll", "isReady", "sleep", "final", "onFollowerWait",
                             "fallbackFetch", "onFallback"}
               => call[c].role = "follower"
          /\ call[c].outcome \in {"MISS_FOLLOWER_HIT", "MISS_FOLLOWER_FALLBACK"}
               => call[c].role = "follower")
  /\ [][\A c \in Callers :
          (call[c].role = "follower" /\ call'[c] # call[c])
          => /\ call'[c].nAcquire = call[c].nAcquire
             /\ call'[c].role = "follower"
             /\ call'[c].leaseUntil = call[c].leaseUntil
             /\ \/ leases'[CallKey] = leases[CallKey]
                \/ leases'[CallKey] = NoLease]_vars

\* A follower has run its fallback fetch after leases.isReady found the
\* lease expired (the record is gone): it could have taken the lease and
\* did not contend for it.
C37_Witness ==
  \E c \in Callers :
     /\ call[c].pc = "onFallback" /\ call[c].role = "follower"
     /\ call[c].nAcquire = 1 /\ call[c].nFetch = 1
     /\ call[c].leaseUntil <= now
     /\ leases[CallKey] = NoLease

\* ------------------------------------------------------------------- C38
\* The instance may be configured with a lease TTL of zero (durationSchema
\* accepts every finite duration) or with the usual one.
LeaseTtlsZero == {0} \cup LeaseTtls

InitZeroLease ==
  /\ now = 0
  /\ cache = [k \in Stores |-> NoEntry]
  /\ leases = [k \in Stores |-> NoLease]
  /\ opts \in [leaseTtl : LeaseTtlsZero, waitMax : WaitMaxes, waitStep : WaitSteps, cacheTtl : {NoTtl}]
  /\ call = [c \in Calls |-> IdleCall]
  /\ faults = 0
  /\ lastOp = NoOp
  /\ hookRun = NoHookRun
  /\ request = NoRequest
  /\ phaseRun = NoPhaseRun
  /\ registry = NoRegistry
  /\ remote = NoRemote

ZeroLeaseSpec == InitZeroLease /\ [][Next]_vars

\* C38: with leaseTtl = 0 the key's lease record is never active (its expiry
\* is the clock reading of the acquire, and that is <= now ever after), so
\* every leases.acquire that returns makes its caller the leader with
\* leaseUntil equal to the time of the call, no call is ever a follower, and
\* every call that went past its fetch has invoked its own fetcher once.
C38_ZeroLeaseTtl ==
  /\ [](opts.leaseTtl = 0 =>
          /\ leases[CallKey] # NoLease => leases[CallKey].expiresAt <= now
          /\ \A c \in Callers :
               /\ call[c].role # "follower"
               /\ call[c].pc \in AfterAcquirePcs => call[c].role = "leader"
               /\ call[c].pc \in {"set", "markReady", "onLeader"} => call[c].nFetch = 1
               /\ call[c].outcome \notin {"MISS_FOLLOWER_HIT", "MISS_FOLLOWER_FALLBACK"}
               /\ call[c].outcome \in {"MISS_LEADER", "MISS_LEADER_NOCACHE"} => call[c].nFetch = 1)
  /\ [][opts.leaseTtl = 0 =>
          \A c \in Callers :
             (call[c].pc = "acquire" /\ call'[c].pc # "acquire"
                /\ call'[c].error # "LEASE_ACQUIRE_FAILED")
             => /\ call'[c].role = "leader" /\ call'[c].pc = "fetch"
                /\ call'[c].leaseUntil = now
                /\ leases'[CallKey] = [holder |-> call[c].owner, expiresAt |-> now, ready |-> FALSE]]_vars

\* With leaseTtl = 0 two calls that missed the cache have both acquired as
\* leader at the same clock reading, the second while the first was
\* fetching, and both have invoked their fetchers.
C38_Witness ==
  /\ opts.leaseTtl = 0
  /\ \A c \in Calls :
       /\ call[c].role = "leader" /\ call[c].nAcquire = 1 /\ call[c].nFetch = 1
       /\ call[c].leaseUntil = 0
       /\ call[c].pc = "done" /\ call[c].outcome = "MISS_LEADER"
  /\ cache[CallKey].value # 0

\* ------------------------------------------------------------------- C34
\* C34: on RedisLeases and S3Leases a lease starts with readiness false:
\* isReady reports ready = true only if markReady has been called since the
\* latest acquire that returned leader.
C34_FreshLeaseNotReady ==
  [][\A o \in DirectOwners :
       ( /\ remote.kind \in {"redis", "s3"}
         /\ remote'.op[o] # remote.op[o] /\ remote'.op[o].pc = "idle"
         /\ remote'.op[o].res.op = "isReady" /\ remote'.op[o].res.ready )
       => remote.marked]_vars

\* ------------------------------------------------------------------- C35
\* C35: the DeleteObject of S3Leases.release(key, owner) removes a lease
\* object only if that object is owned by owner.
C35_S3ReleaseOwn ==
  [][\A o \in DirectOwners :
       ( /\ At("s3", o, "s3Delete") /\ remote'.op[o].pc = "idle"
         /\ remote.lease # NoLease /\ remote'.lease = NoLease )
       => remote.lease.holder = o]_vars

\* ------------------------------------------------------------------- C36
\* C36: the DELETE of PostgresLeases.isReady removes a lease record only if
\* the record is expired at the time of the delete, so an active record
\* survives every isReady.
C36_IsReadyKeepsActive ==
  [][\A o \in DirectOwners :
       ( /\ At("postgres", o, "pgDelete") /\ remote'.op[o].pc = "idle"
         /\ remote.lease # NoLease /\ remote'.lease = NoLease )
       => remote.lease.expiresAt <= now]_vars
====
